---- MODULE Spec2Model ----
(***************************************************************************)
(* The conversational todo agent of phase_iii: the rule engine of          *)
(* MockProvider (context resolution, delete confirmation, intent rules),   *)
(* the rule engine of TodoAgent, the result summariser and the chat        *)
(* endpoint that stores the turns and executes the tool calls.             *)
(*                                                                         *)
(* Text is a sequence of tokens.  The Python string of a text is its       *)
(* tokens joined by one space, except that a closing punctuation token     *)
(* attaches to the token before it and an opening one to the token after   *)
(* it.  A regular expression of the source is an operator over token       *)
(* sequences that matches exactly when the expression matches the string.  *)
(* Urdu words are written as ASCII tokens with the prefix "ur_".           *)
(***************************************************************************)
EXTENDS Integers, Sequences, FiniteSets, TLC

\* ------------------------------------------------------------------ bounds
MaxId == 2
MaxTurns == 3

\* Python's None
None == -1
\* The task ids a user names.  Ids are SQLite rowids, which start at 1, and
\* todo_tools rejects a falsy todo_id as "Invalid todo_id".
TaskIds == 1..MaxId
\* get_current_user_id: the demo token "test_token" is user 1
UserId == 1

\* ------------------------------------------------------------------ tokens
\* the numerals of the task ids a conversation can meet
DigitStr ==
  << "1", "2", "3", "4", "5", "6", "7", "8", "9", "10", "11", "12",
     "13", "14", "15", "16", "17", "18", "19", "20", "21", "22", "23", "24",
     "25", "26", "27", "28", "29", "30", "31", "32", "33", "34", "35", "36",
     "37", "38", "39", "40", "41", "42", "43", "44", "45", "46", "47", "48" >>
\* str(n) for a task id
ToStr(n) == DigitStr[n]
\* \d+ : the token is a run of digits
IsNum(w) == \E n \in 1..Len(DigitStr) : DigitStr[n] = w
\* int(m.group(..))
ToInt(w) == CHOOSE n \in 1..Len(DigitStr) : DigitStr[n] = w

\* pairs <<word as written, word lower-cased>> of the words that carry
\* upper-case letters
LowerPairs ==
  { <<"Delete", "delete">>, <<"Yes", "yes">>, <<"Add", "add">>,
    <<"Actually", "actually">>, <<"Task", "task">>, <<"Buy", "buy">>,
    <<"Sure", "sure">>, <<"Are", "are">>, <<"I'm", "i'm">>,
    <<"I'll", "i'll">>, <<"This", "this">>, <<"Which", "which">>,
    <<"Deletion", "deletion">>, <<"Marking", "marking">>,
    <<"Updating", "updating">>, <<"Fetching", "fetching">>,
    <<"I", "i">>, <<"Sorry", "sorry">>, <<"Here", "here">>,
    <<"Your", "your">>, <<"Successfully", "successfully">>,
    <<"Operation", "operation">>, <<"I've", "i've">>, <<"ID", "id">>,
    <<"Milk", "milk">>, <<"Show", "show">>, <<"Complete", "complete">>,
    <<"Hello", "hello">>, <<"No", "no">>, <<"It", "it">>,
    <<"That", "that">>, <<"Do", "do">>, <<"Don't", "don't">>,
    <<"Ok", "ok">>, <<"Cancel", "cancel">>, <<"My", "my">>,
    <<"Tasks", "tasks">>, <<"Update", "update">>, <<"To", "to">>,
    <<"Invalid", "invalid">>, <<"Title", "title">>,
    <<"Unknown", "unknown">>, <<"Description", "description">>,
    <<"A", "a">>, <<"S", "s">>, <<"Id", "id">>, <<"List", "list">>,
    <<"What", "what">>, <<"Ur_salam", "ur_salam">> }

\* the lower-case form of each word written with an upper-case letter
LowerMap ==
  [w \in {p[1] : p \in LowerPairs} |-> (CHOOSE p \in LowerPairs : p[1] = w)[2]]
\* str.lower() of one word
LowerTok(w) == IF w \in DOMAIN LowerMap THEN LowerMap[w] ELSE w

\* str.lower()
Lower(t) == [i \in 1..Len(t) |-> LowerTok(t[i])]

\* str.capitalize() of a lower-case text: the first letter goes upper-case
Capitalize(t) ==
  IF t = <<>> THEN t
  ELSE IF \E p \in LowerPairs : p[2] = t[1]
    THEN <<(CHOOSE p \in LowerPairs : p[2] = t[1])[1]>> \o Tail(t)
    ELSE t

\* the Urdu words of the model, with the word each stands for
UrduYes == {"ur_ji", "ur_haan", "ur_bilkul"}          \* ji, haan, bilkul
UrduNo == {"ur_nahin", "ur_mat", "ur_ruk"}            \* nahin, mat, ruk
\* U+06D4, U+061F, U+060C  (normalize_urdu also strips "!")
UrduPunct == {"ur_stop", "ur_qmark", "ur_comma"}
\* fehrist, list, dikhaen, task: words containing a keyword of the Urdu
\* list rule
UrduListWords == {"ur_fehrist", "ur_list", "ur_dikhaen", "ur_task"}
\* karen, shamil, karo, hazf (delete), mukammal (complete), doodh (milk),
\* kaam (work), salam
UrduOther == {"ur_karen", "ur_shamil", "ur_karo", "ur_hazf", "ur_mukammal",
              "ur_doodh", "ur_kaam", "ur_salam", "ur_ko", "ur_number"}
\* pehla .. panchwan: first .. fifth
UrduOrdinalWords == <<"ur_pehla", "ur_doosra", "ur_teesra", "ur_chautha",
                      "ur_panchwan">>
\* the fixed parts of the Urdu reply templates, each one token
UrduReplyWords == {"ur_reply_list", "ur_reply_add_a", "ur_reply_add_b",
                   "ur_reply_complete_b", "ur_reply_confirm_a",
                   "ur_reply_confirm_b", "ur_reply_update_c",
                   "ur_reply_deleting_a", "ur_reply_deleting_b",
                   "ur_reply_cancel", "ur_reply_unknown", "ur_reply_error",
                   "ur_reply_empty", "ur_reply_header", "ur_reply_deleted_b",
                   "ur_reply_saved_b", "ur_reply_saved_id", "ur_reply_done_b",
                   "ur_reply_updated", "ur_reply_agentdel_a",
                   "ur_reply_agentdel_b"}
IsOrdinal(w) == \E n \in 1..Len(UrduOrdinalWords) : UrduOrdinalWords[n] = w
UrduWords ==
  UrduYes \cup UrduNo \cup UrduPunct \cup UrduListWords \cup UrduOther
  \cup UrduReplyWords \cup {UrduOrdinalWords[n] : n \in 1..Len(UrduOrdinalWords)}

\* tokens with no space before them, and tokens with no space after them
\* "<'" is a quote that opens and "'>" one that closes
ClosingPunct == {".", "?", "!", ",", ":", ")", "'>", "..."} \cup UrduPunct
OpeningPunct == {"(", "<'"}
\* "\n"
NewLine == "<nl>"

\* any(U+0600 <= char <= U+06FF for char in text)
is_urdu(t) == \E i \in 1..Len(t) : t[i] \in UrduWords

\* re.sub of the four punctuation marks by a space, then strip()
normalize_urdu(t) == SelectSeq(t, LAMBDA w : w \notin {"ur_stop", "ur_qmark", "ur_comma", "!"})

MinOf(S) == CHOOSE x \in S : \A y \in S : x <= y
MaxOf(S) == CHOOSE x \in S : \A y \in S : x >= y
\* there is white space between token k and token k+1
SpaceAfter(t, k) ==
  /\ k < Len(t)
  /\ t[k] \notin OpeningPunct
  /\ t[k + 1] \notin ClosingPunct

\* ------------------------------------------------------ records of a turn
\* a history message as chat() hands it to the agent
Msg(role, content) == [role |-> role, content |-> content]
\* a tool call; title is meaningful when has_title, completed stands for
\* the key "completed": True
Call(name, todo_id, title, has_title, completed) ==
  [name |-> name, user_id |-> UserId, todo_id |-> todo_id, title |-> title,
   has_title |-> has_title, completed |-> completed]
\* the dictionary process_message returns; intent names the branch or rule
\* that decided, which the source keeps in a local variable
Response(text, calls, urdu, intent) ==
  [response_text |-> text, tool_calls |-> calls,
   requires_tool_execution |-> Len(calls) > 0,
   language |-> IF urdu THEN "ur" ELSE "en", intent |-> intent]
\* Python truthiness of an optional integer
Truthy(x) == x # None /\ x # 0

\* ------------------------------------------- MockProvider: Context Resolver
\* words that contain "sure" or "confirm", words that contain "delete",
\* words that end with "task", words that end with "task", "id" or "item"
HasSure(w) == w \in {"sure", "confirm", "unsure", "confirmed"}
HasDelete(w) == w \in {"delete", "deleted"}
EndsTask(w) == w \in {"task", "subtask"}
EndsRef(w) == w \in {"task", "subtask", "id", "item", "todo_id"}
\* no "\n" among tokens i..k of c
OneLine(c, i, k) == \A n \in i..k : c[n] # NewLine

\* re.search(r"(?:sure|confirm).*delete.*task\s+(\d+)", content): the
\* positions k of a "task" that is followed by digits and preceded, on the
\* same line, by a "delete" that comes after the "sure" at i
ConfirmTasksFrom(c, i) ==
  { k \in (i + 2)..(Len(c) - 1) :
      /\ EndsTask(c[k]) /\ IsNum(c[k + 1]) /\ SpaceAfter(c, k)
      /\ OneLine(c, i, k + 1)
      /\ \E j \in (i + 1)..(k - 1) : HasDelete(c[j]) }
ConfirmStarts(c) ==
  { i \in 1..Len(c) : HasSure(c[i]) /\ ConfirmTasksFrom(c, i) # {} }
\* int(confirmation_match.group(1)), or None when there is no match: the
\* match starts at the leftmost "sure" and both .* are greedy
confirmation_match(c) ==
  IF ConfirmStarts(c) = {} THEN None
  ELSE ToInt(c[MaxOf(ConfirmTasksFrom(c, MinOf(ConfirmStarts(c)))) + 1])

\* re.search(r"(?:task|id|item)(?:\s*[:#])?\s+(\d+)", content)
IdMatchAt(c, k) ==
  /\ EndsRef(c[k])
  /\ \/ k + 1 <= Len(c) /\ IsNum(c[k + 1]) /\ SpaceAfter(c, k)
     \/ k + 2 <= Len(c) /\ c[k + 1] \in {":", "#"} /\ IsNum(c[k + 2])
IdMatchNum(c, k) == IF IsNum(c[k + 1]) THEN c[k + 1] ELSE c[k + 2]
id_match(c) ==
  LET ks == { k \in 1..Len(c) : IdMatchAt(c, k) }
  IN IF ks = {} THEN None ELSE ToInt(IdMatchNum(c, MinOf(ks)))

EmptyContext == [last_id |-> None, pending_action |-> "none", pending_id |-> None]

\* the loop with the test "not context['last_id']" left out of the
\* reference branch: an older reference replaces a newer one
RECURSIVE ScanHistoryOverwrite(_, _, _)
ScanHistoryOverwrite(history, i, context) ==
  IF i < 1 THEN context
  ELSE
    LET content == Lower(history[i].content)
        cm == IF history[i].role = "assistant"
                THEN confirmation_match(content) ELSE None
        im == id_match(content)
    IN IF cm # None
         THEN [last_id |-> IF ~Truthy(context.last_id) THEN cm
                           ELSE context.last_id,
               pending_action |-> "delete",
               pending_id |-> cm]
         ELSE ScanHistoryOverwrite(history, i - 1,
                IF im # None THEN [context EXCEPT !.last_id = im]
                ELSE context)

\* the body of the backward loop for message i, and the loop itself: it
\* goes on to message i-1 unless the body breaks
RECURSIVE ScanHistory(_, _, _)
ScanHistory(history, i, context) ==
  IF i < 1 THEN context
  ELSE
    LET content == Lower(history[i].content)
        cm == IF history[i].role = "assistant"
                THEN confirmation_match(content) ELSE None
        im == id_match(content)
    IN IF cm # None
         THEN [last_id |-> IF ~Truthy(context.last_id) THEN cm
                           ELSE context.last_id,
               pending_action |-> "delete",
               pending_id |-> cm]
         ELSE ScanHistory(history, i - 1,
                IF im # None /\ ~Truthy(context.last_id)
                  THEN [context EXCEPT !.last_id = im]
                  ELSE context)

get_context_from_history(history) ==
  ScanHistory(history, Len(history), EmptyContext)

\* ------------------------------------------- MockProvider: confirmation
\* re.search(yes_pattern, msg): \b(?:yes|sure|confirm|ok|yeah|do it|y)\b or
\* one of the Urdu words
yes_pattern(msg) ==
  \/ \E i \in 1..Len(msg) :
       msg[i] \in {"yes", "sure", "confirm", "ok", "yeah", "y"} \cup UrduYes
  \/ \E i \in 1..(Len(msg) - 1) :
       msg[i] = "do" /\ msg[i + 1] = "it" /\ SpaceAfter(msg, i)
\* re.search(no_pattern, msg): \b(?:no|cancel|stop|don't|wait)\b or one of
\* the Urdu words
no_pattern(msg) ==
  \E i \in 1..Len(msg) :
    msg[i] \in {"no", "cancel", "stop", "don't", "wait"} \cup UrduNo

\* ------------------------------------------- MockProvider: English rules
Rest(t, k) == SubSeq(t, k + 1, Len(t))
NoMatch == [matched |-> FALSE]

\* (show|list|get|fetch|what are|display).*(task|todo|list|items)
ListVerbEnd(msg) ==
  { i \in 1..Len(msg) : msg[i] \in {"show", "list", "get", "fetch", "display"} }
  \cup { i + 1 : i \in { n \in 1..(Len(msg) - 1) :
           msg[n] = "what" /\ msg[n + 1] = "are" /\ SpaceAfter(msg, n) } }
HasListNoun(w) == w \in {"task", "tasks", "todo", "todos", "list", "items", "subtask"}
en_list(msg) ==
  \E e \in ListVerbEnd(msg) : \E j \in (e + 1)..Len(msg) : HasListNoun(msg[j])

\* the end of (?:add|create|new task|remember to|remind me to) when it
\* starts at token i, or 0
AddVerbEnd(msg, i) ==
  IF msg[i] \in {"add", "create"} THEN i
  ELSE IF i + 1 <= Len(msg) /\ SpaceAfter(msg, i)
          /\ << msg[i], msg[i + 1] >> \in { <<"new", "task">>, <<"remember", "to">> }
    THEN i + 1
  ELSE IF i + 2 <= Len(msg) /\ SpaceAfter(msg, i) /\ SpaceAfter(msg, i + 1)
          /\ << msg[i], msg[i + 1], msg[i + 2] >> = <<"remind", "me", "to">>
    THEN i + 2
  ELSE 0
\* (?:a task to|a task|to|task|that)?\s*(.+) on the text r after the verb:
\* the first alternative that leaves something for (.+); the alternatives
\* match letters, so "task" also eats the head of "tasks"
AddTitle(r, withThat) ==
  IF Len(r) >= 4 /\ SubSeq(r, 1, 3) = <<"a", "task", "to">> THEN Rest(r, 3)
  ELSE IF Len(r) >= 2 /\ SubSeq(r, 1, 2) = <<"a", "tasks">> THEN <<"s">> \o Rest(r, 2)
  ELSE IF Len(r) >= 3 /\ SubSeq(r, 1, 2) = <<"a", "task">> THEN Rest(r, 2)
  ELSE IF Len(r) >= 2 /\ r[1] = "to" THEN Rest(r, 1)
  ELSE IF r[1] = "tasks" THEN <<"s">> \o Rest(r, 1)
  ELSE IF Len(r) >= 2 /\ r[1] = "task" THEN Rest(r, 1)
  ELSE IF withThat /\ Len(r) >= 2 /\ r[1] = "that" THEN Rest(r, 1)
  ELSE r
\* (?:add|...)\s+(?:a task to|a task|to|task|that)?\s*(.+): group 1
en_add(msg, withThat) ==
  LET starts == { i \in 1..Len(msg) :
                    /\ AddVerbEnd(msg, i) # 0
                    /\ AddVerbEnd(msg, i) < Len(msg)
                    /\ SpaceAfter(msg, AddVerbEnd(msg, i)) }
  IN IF starts = {} THEN NoMatch
     ELSE [matched |-> TRUE,
           title |-> AddTitle(Rest(msg, AddVerbEnd(msg, MinOf(starts))), withThat)]

\* (?:^|\s)(?:a\s+)?task\s+(?!id\b|number\b|\d)(?:to\s+|about\s+|by\s+|for\s+)?(.+)
en_add_implicit(msg) ==
  LET starts == { i \in 1..(Len(msg) - 1) :
                    /\ msg[i] = "task"
                    /\ (i = 1 \/ SpaceAfter(msg, i - 1))
                    /\ SpaceAfter(msg, i)
                    /\ msg[i + 1] \notin {"id", "number"}
                    /\ ~IsNum(msg[i + 1]) }
      r == Rest(msg, MinOf(starts))
  IN IF starts = {} THEN NoMatch
     ELSE [matched |-> TRUE,
           title |-> IF Len(r) >= 2 /\ r[1] \in {"to", "about", "by", "for"}
                        /\ SpaceAfter(r, 1)
                       THEN Rest(r, 1) ELSE r]

\* (?:verb)\s+(?:it|that|this|the task)$ for the verbs of a context rule
\* a verb of the set ends at token k ("check off" takes two tokens)
ContextVerbAt(msg, k, verbs) ==
  /\ k >= 1
  /\ SpaceAfter(msg, k)
  /\ \/ msg[k] \in verbs
     \/ /\ "check off" \in verbs /\ k >= 2
        /\ msg[k] = "off" /\ msg[k - 1] = "check"
en_context(msg, verbs) ==
  LET n == Len(msg)
  IN \/ n >= 2 /\ msg[n] \in {"it", "that", "this"} /\ ContextVerbAt(msg, n - 1, verbs)
     \/ n >= 3 /\ msg[n] = "task" /\ msg[n - 1] = "the" /\ ContextVerbAt(msg, n - 2, verbs)
CompleteContextVerbs == {"complete", "incomplete", "finish", "mark", "check off"}
DeleteContextVerbs == {"delete", "remove", "erase"}

\* (?:verb)\s+(?:task|id)?\s*(\d+): the token of group 1 of the leftmost
\* match, as a one-element set, or {} when there is no match
NumAfter(msg, i, nouns) ==
  IF i + 1 <= Len(msg) /\ IsNum(msg[i + 1]) /\ SpaceAfter(msg, i) THEN i + 1
  ELSE IF i + 2 <= Len(msg) /\ msg[i + 1] \in nouns
          /\ SpaceAfter(msg, i) /\ IsNum(msg[i + 2]) THEN i + 2
  ELSE 0
en_verb_id(msg, verbs, nouns) ==
  LET starts == { i \in 1..Len(msg) : msg[i] \in verbs /\ NumAfter(msg, i, nouns) # 0 }
  IN IF starts = {} THEN NoMatch
     ELSE [matched |-> TRUE, num |-> msg[NumAfter(msg, MinOf(starts), nouns)]]
MockNouns == {"task", "id"}
CompleteVerbs == {"complete", "incomplete", "mark", "finish"}
DeleteVerbs == {"delete", "remove"}

\* (?:verb)\s+(?:task|id)?\s*(\d+)\s+(?:to|with)\s+['\"]?(.*?)['\"]?$
en_update(msg, verbs, nouns) ==
  LET at(i) == NumAfter(msg, i, nouns)
      starts == { i \in 1..Len(msg) :
                    /\ msg[i] \in verbs /\ at(i) # 0
                    /\ at(i) + 2 <= Len(msg)
                    /\ SpaceAfter(msg, at(i))
                    /\ msg[at(i) + 1] \in {"to", "with"}
                    /\ SpaceAfter(msg, at(i) + 1) }
      n == at(MinOf(starts))
  IN IF starts = {} THEN NoMatch
     ELSE [matched |-> TRUE, num |-> msg[n], title |-> Rest(msg, n + 1)]
UpdateVerbs == {"update", "change", "rename"}

\* --------------------------------------------- MockProvider: Urdu rules
\* the list rule: a keyword occurs somewhere in the message
ur_list(um) == \E i \in 1..Len(um) : um[i] \in UrduListWords

\* the end of the add verb that starts at token k, or 0: the alternatives
\* of the model's words are "shamil karen", "shamil karo" and "karen"
UrAddVerbEnd(um, k) ==
  IF k + 1 <= Len(um) /\ um[k] = "ur_shamil" /\ SpaceAfter(um, k)
     /\ um[k + 1] \in {"ur_karen", "ur_karo"} THEN k + 1
  ELSE IF um[k] = "ur_karen" THEN k
  ELSE 0
\* (?:^|\s)(.+)\s+(?:verbs)(?:\s+(.+))? : group 1 is greedy, so the verb is
\* the last one that has a word before it; the title is group 1 and group 2
ur_add_mock(um) ==
  LET ks == { k \in 2..Len(um) : UrAddVerbEnd(um, k) # 0 /\ SpaceAfter(um, k - 1) }
      k == MaxOf(ks)
      e == UrAddVerbEnd(um, k)
  IN IF ks = {} THEN NoMatch
     ELSE [matched |-> TRUE,
           title |-> SubSeq(um, 1, k - 1)
                     \o (IF e < Len(um) /\ SpaceAfter(um, e) THEN Rest(um, e) ELSE <<>>)]

IsUrNoun(w) == w \in {"ur_task", "ur_kaam", "ur_number"}
\* (noun)?\s*(\d+|ordinal)\s*(noun)?\s*(verbs): the position of the token
\* after the optional noun that follows the number at k
UrAfterNum(um, k) ==
  IF k + 1 <= Len(um) /\ IsUrNoun(um[k + 1]) THEN k + 2 ELSE k + 1
ur_num_verb(um, verbs) ==
  LET ks == { k \in 1..Len(um) :
                /\ IsNum(um[k]) \/ IsOrdinal(um[k])
                /\ \/ UrAfterNum(um, k) <= Len(um) /\ um[UrAfterNum(um, k)] \in verbs
                   \/ k + 1 <= Len(um) /\ um[k + 1] \in verbs }
  IN IF ks = {} THEN NoMatch
     ELSE [matched |-> TRUE, num |-> um[MinOf(ks)]]
UrCompleteVerbs == {"ur_mukammal", "ur_karen", "ur_karo"}
UrDeleteVerbs == {"ur_hazf", "ur_karo", "ur_karen"}

\* (noun)?\s*(\d+|ordinal)\s*(noun)?\s*(ko|...)\s*['\"]?(.*?)['\"]?\s*(karo|karen|...)
\* group 5 is lazy, so it ends before the first closing verb
ur_update(um) ==
  LET koAt(k) == IF um[UrAfterNum(um, k)] = "ur_ko" THEN UrAfterNum(um, k) ELSE k + 1
      ks == { k \in 1..Len(um) :
                /\ IsNum(um[k]) \/ IsOrdinal(um[k])
                /\ \/ UrAfterNum(um, k) <= Len(um) /\ um[UrAfterNum(um, k)] = "ur_ko"
                   \/ k + 1 <= Len(um) /\ um[k + 1] = "ur_ko"
                /\ \E c \in (koAt(k) + 1)..Len(um) : um[c] \in {"ur_karo", "ur_karen"} }
      k0 == MinOf(ks)
      c0 == MinOf({ c \in (koAt(k0) + 1)..Len(um) : um[c] \in {"ur_karo", "ur_karen"} })
  IN IF ks = {} THEN NoMatch
     ELSE [matched |-> TRUE, num |-> um[k0],
           title |-> SubSeq(um, koAt(k0) + 1, c0 - 1)]

\* urdu_ordinals.get(g, int(g) if g.isdigit() else 1)
ur_todo_id(w) ==
  IF IsOrdinal(w)
    THEN CHOOSE n \in 1..Len(UrduOrdinalWords) : UrduOrdinalWords[n] = w
  ELSE IF IsNum(w) THEN ToInt(w)
  ELSE 1

\* ------------------------------------------- MockProvider.process_message
Quoted(t) == <<"<'">> \o t \o <<"'>">>
SureQuestion(num) ==
  <<"Are", "you", "sure", "you", "want", "to", "delete", "task", num, "?",
    "This", "cannot", "be", "undone", ".">>
\* the help reply in English whatever the language of the message
UnknownReplyEnglish(urdu) ==
  <<"I'm", "sorry", ",", "I", "didn't", "quite", "catch", "that", ".",
    "I", "can", "help", "you", "add", ",", "list", ",", "update", ",",
    "or", "delete", "tasks", ".">>
UnknownReply(urdu) ==
  IF urdu THEN <<"ur_reply_unknown">>
  ELSE <<"I'm", "sorry", ",", "I", "didn't", "quite", "catch", "that", ".",
         "I", "can", "help", "you", "add", ",", "list", ",", "update", ",",
         "or", "delete", "tasks", ".">>
ListCall == Call("list_todos", None, <<>>, FALSE, FALSE)
AddReply(title) ==
  <<"Sure", "!", "I'll", "add">> \o Quoted(title) \o <<"to", "your", "list", ".">>
MarkingReply(num) == <<"Marking", "task", num, "as", "complete", ".">>

\* the generator of the rule "complete_context": ctx is last_id
complete_context_unchecked(ctx) ==
  Response(<<"Marking", "task", "as", "complete", ".">>,
           <<Call("update_todo", ctx, <<>>, FALSE, TRUE)>>, FALSE, "complete_context")
complete_context_rule(ctx) ==
  IF Truthy(ctx)
    THEN Response(MarkingReply(ToStr(ctx)),
                  <<Call("update_todo", ctx, <<>>, FALSE, TRUE)>>, FALSE, "complete_context")
    ELSE Response(<<"Which", "task", "would", "you", "like", "to", "complete", "?">>,
                  <<>>, FALSE, "complete_context")
\* the generator of the rule "delete_context"
delete_context_rule(ctx) ==
  IF Truthy(ctx)
    THEN Response(SureQuestion(ToStr(ctx)), <<>>, FALSE, "delete_context")
    ELSE Response(<<"Which", "task", "would", "you", "like", "to", "delete", "?">>,
                  <<>>, FALSE, "delete_context")
\* the generator of the rule "delete_request": num is the digits matched
delete_request_dispatch(num) ==
  Response(<<"I'm", "deleting", "task", num, "for", "you", ".">>,
           <<Call("delete_todo", ToInt(num), <<>>, FALSE, FALSE)>>, FALSE, "delete_request")
delete_request_rule(num) ==
  Response(SureQuestion(num), <<>>, FALSE, "delete_request")

\* the English rule list, applied in order to msg with ctx = last_id
MockEnglishRules(msg, ctx) ==
  IF en_list(msg)
    THEN Response(<<"Fetching", "your", "todo", "list", "...">>, <<ListCall>>, FALSE, "list")
  ELSE IF en_add(msg, TRUE).matched
    THEN LET title == Capitalize(en_add(msg, TRUE).title)
         IN Response(AddReply(title),
                     <<Call("create_todo", None, title, TRUE, FALSE)>>, FALSE, "add")
  ELSE IF en_add_implicit(msg).matched
    THEN LET title == Capitalize(en_add_implicit(msg).title)
         IN Response(AddReply(title),
                     <<Call("create_todo", None, title, TRUE, FALSE)>>, FALSE, "add_implicit")
  ELSE IF en_context(msg, CompleteContextVerbs) THEN complete_context_rule(ctx)
  ELSE IF en_context(msg, DeleteContextVerbs) THEN delete_context_rule(ctx)
  ELSE IF en_verb_id(msg, CompleteVerbs, MockNouns).matched
    THEN LET num == en_verb_id(msg, CompleteVerbs, MockNouns).num
         IN Response(MarkingReply(num),
                     <<Call("update_todo", ToInt(num), <<>>, FALSE, TRUE)>>, FALSE, "complete")
  ELSE IF en_verb_id(msg, DeleteVerbs, MockNouns).matched
    THEN delete_request_rule(en_verb_id(msg, DeleteVerbs, MockNouns).num)
  ELSE IF en_update(msg, UpdateVerbs, MockNouns).matched
    THEN LET m == en_update(msg, UpdateVerbs, MockNouns)
         IN Response(<<"Updating", "task", m.num, "to">> \o Quoted(m.title) \o <<".">>,
                     <<Call("update_todo", ToInt(m.num), m.title, TRUE, FALSE)>>, FALSE, "update")
  ELSE Response(UnknownReply(FALSE), <<>>, FALSE, "unknown")

\* the Urdu rule list, applied in order to the raw user_message
MockUrduRules(um) ==
  IF ur_list(um)
    THEN Response(<<"ur_reply_list">>, <<ListCall>>, TRUE, "list")
  ELSE IF ur_add_mock(um).matched
    THEN LET title == ur_add_mock(um).title
         IN Response(<<"ur_reply_add_a">> \o Quoted(title) \o <<"ur_reply_add_b">>,
                     <<Call("create_todo", None, title, TRUE, FALSE)>>, TRUE, "add")
  ELSE IF ur_num_verb(um, UrCompleteVerbs).matched
    THEN LET num == ur_num_verb(um, UrCompleteVerbs).num
         IN Response(<<"ur_task", num, "ur_reply_complete_b">>,
                     <<Call("update_todo", ur_todo_id(num), <<>>, FALSE, TRUE)>>, TRUE, "complete")
  ELSE IF ur_num_verb(um, UrDeleteVerbs).matched
    THEN LET num == ur_num_verb(um, UrDeleteVerbs).num
         IN Response(<<"ur_reply_confirm_a", num, "ur_reply_confirm_b", "(", "Are",
                       "you", "sure", "you", "want", "to", "delete", "task", num,
                       "?", ")">>, <<>>, TRUE, "delete_request")
  ELSE IF ur_update(um).matched
    THEN LET m == ur_update(um)
         IN Response(<<"ur_task", m.num, "ur_ko">>
                       \o Quoted(m.title) \o <<"ur_reply_update_c">>,
                     <<Call("update_todo", ur_todo_id(m.num), m.title, TRUE, FALSE)>>,
                     TRUE, "update")
  ELSE Response(UnknownReply(TRUE), <<>>, TRUE, "unknown")

\* the confirmation flow, taken when the context holds a pending delete
MockConfirmedNoCall(pending_id, urdu) ==
  Response(IF urdu THEN <<"ur_reply_deleting_a", ToStr(pending_id), "ur_reply_deleting_b">>
           ELSE <<"I'm", "deleting", "task", ToStr(pending_id), "for", "you", ".">>,
           <<>>, urdu, "confirm")
MockConfirmed(pending_id, urdu) ==
  Response(IF urdu THEN <<"ur_reply_deleting_a", ToStr(pending_id), "ur_reply_deleting_b">>
           ELSE <<"I'm", "deleting", "task", ToStr(pending_id), "for", "you", ".">>,
           <<Call("delete_todo", pending_id, <<>>, FALSE, FALSE)>>, urdu, "confirm")
MockCancelled(urdu) ==
  Response(IF urdu THEN <<"ur_reply_cancel">> ELSE <<"Deletion", "cancelled", ".">>,
           <<>>, urdu, "cancel")

\* process_message with the confirmation flow's "elif" turned into "else":
\* whatever is not a yes cancels the pending delete
MockProvider_yes_or_cancel(user_message, conversation_history) ==
  LET is_urdu_msg == is_urdu(user_message)
      msg == IF is_urdu_msg THEN normalize_urdu(Lower(user_message))
             ELSE Lower(user_message)
      context == get_context_from_history(conversation_history)
  IN IF context.pending_action = "delete" /\ Truthy(context.pending_id)
          /\ yes_pattern(msg)
       THEN MockConfirmed(context.pending_id, is_urdu_msg)
     ELSE IF context.pending_action = "delete" /\ Truthy(context.pending_id)
       THEN MockCancelled(is_urdu_msg)
     ELSE IF is_urdu_msg THEN MockUrduRules(user_message)
     ELSE MockEnglishRules(msg, context.last_id)

\* process_message without the return that ends the confirmation flow: a
\* confirmed delete goes on through the rule list, which adds its own calls
MockProvider_confirm_and_continue(user_message, conversation_history) ==
  LET is_urdu_msg == is_urdu(user_message)
      msg == IF is_urdu_msg THEN normalize_urdu(Lower(user_message))
             ELSE Lower(user_message)
      context == get_context_from_history(conversation_history)
      ruled == IF is_urdu_msg THEN MockUrduRules(user_message)
               ELSE MockEnglishRules(msg, context.last_id)
  IN IF context.pending_action = "delete" /\ Truthy(context.pending_id)
          /\ yes_pattern(msg)
       THEN [ruled EXCEPT
               !.tool_calls = MockConfirmed(context.pending_id, is_urdu_msg).tool_calls \o @,
               !.requires_tool_execution = TRUE]
     ELSE IF context.pending_action = "delete" /\ Truthy(context.pending_id)
             /\ no_pattern(msg)
       THEN MockCancelled(is_urdu_msg)
     ELSE ruled

MockProvider_process_message(user_message, conversation_history) ==
  LET is_urdu_msg == is_urdu(user_message)
      msg == IF is_urdu_msg THEN normalize_urdu(Lower(user_message))
             ELSE Lower(user_message)
      context == get_context_from_history(conversation_history)
  IN IF context.pending_action = "delete" /\ Truthy(context.pending_id)
          /\ yes_pattern(msg)
       THEN MockConfirmed(context.pending_id, is_urdu_msg)
     ELSE IF context.pending_action = "delete" /\ Truthy(context.pending_id)
             /\ no_pattern(msg)
       THEN MockCancelled(is_urdu_msg)
     ELSE IF is_urdu_msg THEN MockUrduRules(user_message)
     ELSE MockEnglishRules(msg, context.last_id)

\* ---------------------------------------------- TodoAgent.process_message
AgentNouns == {"task", "todo", "id"}
\* words that start with done, complete, completed, finished or ready
IsDoneWord(w) == w \in {"done", "complete", "completed", "finished", "ready"}
\* (?:task|todo|id|number)?\s*(\d+)\s*(?:is\s+)?(?:done|complete|...)
en_id_done(msg) ==
  LET ks == { k \in 1..Len(msg) :
                /\ IsNum(msg[k])
                /\ \/ k + 1 <= Len(msg) /\ IsDoneWord(msg[k + 1])
                   \/ /\ k + 2 <= Len(msg) /\ msg[k + 1] = "is"
                      /\ SpaceAfter(msg, k + 1) /\ IsDoneWord(msg[k + 2]) }
  IN IF ks = {} THEN NoMatch ELSE [matched |-> TRUE, num |-> msg[MinOf(ks)]]
AgentCompleteVerbs ==
  {"mark", "set", "complete", "incomplete", "completed", "finish", "finished", "done"}
AgentDeleteVerbs ==
  {"delete", "deleted", "remove", "removed", "clear", "erase", "drop"}
AgentUpdateVerbs == {"update", "change", "changed", "edit", "rename"}

AgentEnglishRules(msg) ==
  IF en_list(msg)
    THEN Response(<<"Fetching", "your", "todo", "list", "...">>, <<ListCall>>, FALSE, "list")
  ELSE IF en_add(msg, FALSE).matched
    THEN LET title == Capitalize(en_add(msg, FALSE).title)
         IN Response(AddReply(title),
                     <<Call("create_todo", None, title, TRUE, FALSE)>>, FALSE, "add")
  ELSE IF en_id_done(msg).matched
    THEN LET num == en_id_done(msg).num
         IN Response(MarkingReply(num),
                     <<Call("update_todo", ToInt(num), <<>>, FALSE, TRUE)>>, FALSE, "complete")
  ELSE IF en_verb_id(msg, AgentCompleteVerbs, AgentNouns).matched
    THEN LET num == en_verb_id(msg, AgentCompleteVerbs, AgentNouns).num
         IN Response(MarkingReply(num),
                     <<Call("update_todo", ToInt(num), <<>>, FALSE, TRUE)>>, FALSE, "complete")
  ELSE IF en_verb_id(msg, AgentDeleteVerbs, AgentNouns).matched
    THEN LET num == en_verb_id(msg, AgentDeleteVerbs, AgentNouns).num
         IN Response(<<"I'm", "deleting", "task", num, "for", "you", ".">>,
                     <<Call("delete_todo", ToInt(num), <<>>, FALSE, FALSE)>>, FALSE, "delete")
  ELSE IF en_update(msg, AgentUpdateVerbs, AgentNouns).matched
    THEN LET m == en_update(msg, AgentUpdateVerbs, AgentNouns)
         IN Response(<<"Updating", "task", m.num, "to">> \o Quoted(m.title) \o <<".">>,
                     <<Call("update_todo", ToInt(m.num), m.title, TRUE, FALSE)>>, FALSE, "update")
  ELSE Response(UnknownReply(FALSE), <<>>, FALSE, "unknown")

\* (.*?)\s*(verbs): group 1 is lazy, so the verb is the first one and the
\* title, which may be empty, is the text before it
ur_add_agent(um) ==
  LET ks == { k \in 1..Len(um) : UrAddVerbEnd(um, k) # 0 }
  IN IF ks = {} THEN NoMatch
     ELSE [matched |-> TRUE, title |-> SubSeq(um, 1, MinOf(ks) - 1)]

AgentUrduRules(um) ==
  IF ur_list(um)
    THEN Response(<<"ur_reply_list">>, <<ListCall>>, TRUE, "list")
  ELSE IF ur_add_agent(um).matched
    THEN LET title == ur_add_agent(um).title
         IN Response(<<"ur_reply_add_a">> \o Quoted(title) \o <<"ur_reply_add_b">>,
                     <<Call("create_todo", None, title, TRUE, FALSE)>>, TRUE, "add")
  ELSE IF ur_num_verb(um, UrCompleteVerbs).matched
    THEN LET num == ur_num_verb(um, UrCompleteVerbs).num
         IN Response(<<"ur_task", num, "ur_reply_complete_b">>,
                     <<Call("update_todo", ur_todo_id(num), <<>>, FALSE, TRUE)>>, TRUE, "complete")
  ELSE IF ur_num_verb(um, UrDeleteVerbs).matched
    THEN LET num == ur_num_verb(um, UrDeleteVerbs).num
         IN Response(<<"ur_reply_agentdel_a", num, "ur_reply_agentdel_b">>,
                     <<Call("delete_todo", ur_todo_id(num), <<>>, FALSE, FALSE)>>, TRUE, "delete")
  ELSE IF ur_update(um).matched
    THEN LET m == ur_update(um)
         IN Response(<<"ur_task", m.num, "ur_ko">>
                       \o Quoted(m.title) \o <<"ur_reply_update_c">>,
                     <<Call("update_todo", ur_todo_id(m.num), m.title, TRUE, FALSE)>>,
                     TRUE, "update")
  ELSE Response(UnknownReply(TRUE), <<>>, TRUE, "unknown")

\* the conversation history is a parameter the method never reads
TodoAgent_process_message(user_message, conversation_history) ==
  IF is_urdu(user_message) THEN AgentUrduRules(user_message)
  ELSE AgentEnglishRules(Lower(user_message))

\* ------------------------------------------------------ todo_tools (store)
\* the tasks table of one user: rows in id order, the next rowid of the
\* AUTOINCREMENT key, and whether the table carries the columns priority and
\* category: the table init_todo_tables creates does not, a todo.db that
\* was there before may
Task(id, title, completed) == [id |-> id, title |-> title, completed |-> completed]
EmptyStore == [rows |-> <<>>, next |-> 1, wide |-> FALSE]
\* the dictionary a tool returns; the has_ fields say which keys it holds
Failure(error) ==
  [success |-> FALSE, error |-> error, has_todos |-> FALSE, todos |-> <<>>,
   has_todo_id |-> FALSE, todo_id |-> None, has_title |-> FALSE, title |-> <<>>,
   has_deleted |-> FALSE]
Success(has_todos, todos, has_todo_id, todo_id, has_title, title, has_deleted) ==
  [success |-> TRUE, error |-> <<>>, has_todos |-> has_todos, todos |-> todos,
   has_todo_id |-> has_todo_id, todo_id |-> todo_id, has_title |-> has_title,
   title |-> title, has_deleted |-> has_deleted]
NotFound == <<"Task", "not", "found", "or", "unauthorized">>
HasRow(store, id) == \E i \in 1..Len(store.rows) : store.rows[i].id = id
RowOf(store, id) == CHOOSE i \in 1..Len(store.rows) : store.rows[i].id = id

\* each tool gives <<result, store after the call>>
create_todo_tool(call, store) ==
  IF call.title = <<>>
    THEN << Failure(<<"Title", "cannot", "be", "empty">>), store >>
  ELSE << Success(FALSE, <<>>, TRUE, store.next, TRUE, call.title, FALSE),
          [store EXCEPT !.rows = Append(store.rows, Task(store.next, call.title, FALSE)),
                        !.next = store.next + 1] >>

\* the SELECT names the columns priority and category: sqlite3.Error when
\* the table has none
list_todos_tool(call, store) ==
  IF ~store.wide
    THEN << Failure(<<"no", "such", "column", ":", "priority">>), store >>
  ELSE << Success(TRUE, store.rows, FALSE, None, FALSE, <<>>, FALSE), store >>

update_todo_tool(call, store) ==
  IF ~Truthy(call.todo_id)
    THEN << Failure(<<"Invalid", "todo_id">>), store >>
  ELSE IF ~call.has_title /\ ~call.completed
    THEN << Failure(<<"No", "fields", "to", "update">>), store >>
  ELSE IF ~HasRow(store, call.todo_id)
    THEN << Failure(NotFound), store >>
  ELSE IF call.has_title /\ call.title = <<>>
    THEN << Failure(<<"Description", "cannot", "be", "empty">>), store >>
  ELSE
    LET i == RowOf(store, call.todo_id)
        row == Task(call.todo_id,
                    IF call.has_title THEN call.title ELSE store.rows[i].title,
                    IF call.completed THEN TRUE ELSE store.rows[i].completed)
    IN << Success(FALSE, <<>>, TRUE, call.todo_id, TRUE, row.title, FALSE),
          [store EXCEPT !.rows[i] = row] >>

delete_todo_tool(call, store) ==
  IF ~Truthy(call.todo_id)
    THEN << Failure(<<"Invalid", "todo_id">>), store >>
  ELSE IF ~HasRow(store, call.todo_id)
    THEN << Failure(NotFound), store >>
  ELSE << Success(FALSE, <<>>, TRUE, call.todo_id, FALSE, <<>>, TRUE),
          [store EXCEPT !.rows = SelectSeq(store.rows, LAMBDA r : r.id # call.todo_id)] >>

\* a title that is no str, as in {"title": 5}: title.strip() raises
\* AttributeError, which is no sqlite3.Error and leaves the tool
NonStr == <<"<int>">>
Raises(call, store) ==
  \/ call.name = "create_todo" /\ call.title = NonStr
  \/ /\ call.name = "update_todo" /\ call.has_title /\ call.title = NonStr
     /\ Truthy(call.todo_id) /\ HasRow(store, call.todo_id)
AttributeErrorText == <<"'int'", "object", "has", "no", "attribute", "'strip'">>

\* the try block of execute_tool_calls: TOOL_MAP[tool_name](parameters), a
\* failure with str(e) when the tool raises, and a failure for a name
\* TOOL_MAP does not hold
RunTool(call, store) ==
  IF Raises(call, store) THEN << Failure(AttributeErrorText), store >>
  ELSE IF call.name = "create_todo" THEN create_todo_tool(call, store)
  ELSE IF call.name = "list_todos" THEN list_todos_tool(call, store)
  ELSE IF call.name = "update_todo" THEN update_todo_tool(call, store)
  ELSE IF call.name = "delete_todo" THEN delete_todo_tool(call, store)
  ELSE << Failure(<<"Unknown", "tool", ":", call.name>>), store >>

\* execute_tool_calls: <<results, store after all the calls>>
RECURSIVE execute_tool_calls(_, _)
execute_tool_calls(tool_calls, store) ==
  IF tool_calls = <<>> THEN << <<>>, store >>
  ELSE LET first == RunTool([tool_calls[1] EXCEPT !.user_id = UserId], store)
           rest == execute_tool_calls(Tail(tool_calls), first[2])
       IN << <<first[1]>> \o rest[1], rest[2] >>

\* -------------------------------------------- TodoAgent.process_tool_results
\* a string value of some result's content holds an Urdu character: the
\* string values are the title and the error
is_urdu_context(tool_results) ==
  \E i \in 1..Len(tool_results) :
    is_urdu(tool_results[i].title) \/ is_urdu(tool_results[i].error)

\* the lines "[status] id: title" of a list, each after a "\n"
RECURSIVE TodoLines(_)
TodoLines(todos) ==
  IF todos = <<>> THEN <<>>
  ELSE <<NewLine, IF todos[1].completed THEN "[x]" ELSE "[ ]",
         ToStr(todos[1].id), ":">> \o todos[1].title \o TodoLines(Tail(todos))

\* the sentence for one result where a failure is answered with the error
\* alone
SummaryOfBareError(content, urdu) ==
  IF ~content.success THEN content.error
  ELSE IF content.has_todos
    THEN <<"Here", "is", "your", "current", "todo", "list", ":">>
         \o TodoLines(content.todos)
  ELSE IF content.has_todo_id
    THEN <<"Operation", "on", "task", ToStr(content.todo_id), "was", "successful", ".">>
  ELSE <<>>
\* the sentence appended to responses for one result, <<>> when none is
SummaryOf(content, urdu) ==
  IF ~content.success
    THEN (IF urdu THEN <<"ur_reply_error">>
          ELSE <<"Sorry", ",", "I", "encountered", "an", "error", ":">>) \o content.error
  ELSE IF content.has_todos
    THEN IF content.todos = <<>>
           THEN (IF urdu THEN <<"ur_reply_empty">>
                 ELSE <<"Your", "todo", "list", "is", "currently", "empty", ".">>)
           ELSE (IF urdu THEN <<"ur_reply_header">>
                 ELSE <<"Here", "is", "your", "current", "todo", "list", ":">>)
                \o TodoLines(content.todos)
  ELSE IF content.has_todo_id
    THEN IF content.has_deleted
           THEN (IF urdu THEN <<"ur_task", ToStr(content.todo_id), "ur_reply_deleted_b">>
                 ELSE <<"Successfully", "deleted", "task", ToStr(content.todo_id), ".">>)
         ELSE IF content.has_title
           THEN (IF urdu
                   THEN <<"ur_task">> \o Quoted(content.title)
                        \o <<"ur_reply_saved_b", "(", "ur_reply_saved_id", ":",
                             ToStr(content.todo_id), ")", "ur_stop">>
                 ELSE <<"Task">> \o Quoted(content.title)
                      \o <<"has", "been", "processed", "successfully", "(", "ID", ":",
                           ToStr(content.todo_id), ")", ".">>)
         ELSE (IF urdu THEN <<"ur_task", ToStr(content.todo_id), "ur_reply_done_b">>
               ELSE <<"Operation", "on", "task", ToStr(content.todo_id), "was",
                      "successful", ".">>)
  ELSE <<>>

\* " ".join(responses)
RECURSIVE JoinSummaries(_, _)
JoinSummaries(tool_results, urdu) ==
  IF tool_results = <<>> THEN <<>>
  ELSE SummaryOf(tool_results[1], urdu) \o JoinSummaries(Tail(tool_results), urdu)

\* response_text of process_tool_results
process_tool_results(tool_results) ==
  LET urdu == is_urdu_context(tool_results)
      joined == JoinSummaries(tool_results, urdu)
  IN IF joined # <<>> THEN joined
     ELSE IF urdu THEN <<"ur_reply_updated">>
     ELSE <<"I've", "updated", "your", "list", "as", "requested", "!">>

\* ------------------------------------------------ conversation_repo, chat()
\* max_messages of the call chat() makes to get_conversation_context
MaxMessages == 20

\* SELECT ... ORDER BY timestamp ASC LIMIT limit OFFSET offset over the
\* messages of the user, which are kept in the order they were stored
get_recent_messages(messages, limit, offset) ==
  SubSeq(messages, offset + 1,
         IF Len(messages) < offset + limit THEN Len(messages) ELSE offset + limit)
get_conversation_context(messages, max_messages) ==
  get_recent_messages(messages, max_messages, 0)

\* store_message raises ValueError for a content that is empty once stripped
CanStore(content) == content # <<>>

VARIABLES
  history,   \* the conversation_messages rows of the user, oldest first
  store,     \* the tasks table of the user
  turns,     \* the requests served so far
  last,      \* the request served last: what chat() read, got and returned
  call,      \* the call of process_message made last by a direct caller
  seen,      \* an earlier direct call, kept to compare later calls with
  table,     \* the conversation_messages rows of all users, in rowid order;
             \* a deleted row leaves its rowid behind, as AUTOINCREMENT
             \* gives no rowid twice
  clock,     \* the reading datetime.now() gave last
  task_table, \* the tasks table of all users
  served,    \* for each user, the request of the user served last
  alone,     \* for each user, the tables and the request served last when
             \* only the requests of that user are served
  tool_call_table  \* the tool_calls rows, in rowid order

vars == << history, store, turns, last, call, seen,
           table, clock, task_table, served, alone, tool_call_table >>
direct == << call, seen >>
tables == << table, clock, task_table, served, alone, tool_call_table >>

NoResponse == Response(<<>>, <<>>, FALSE, "none")
NoTurn ==
  [input |-> <<>>, context |-> <<>>, response |-> NoResponse,
   results |-> <<>>, reply |-> <<>>, status |-> 0]
\* no direct call of process_message was made
NoCall ==
  [agent |-> "none", user_message |-> <<>>, conversation_history |-> <<>>,
   response |-> NoResponse]
NoDirectCalls == call = NoCall /\ seen = NoCall

\* the users that hold a token
Users == { 1, 2 }
\* the tasks table: the rows of each user, and the AUTOINCREMENT counter
\* and the columns the rows share
EmptyTasks(wide) == [rows |-> [u \in Users |-> <<>>], next |-> 1, wide |-> wide]
\* the tables before anything is stored
NoTables ==
  /\ table = <<>>
  /\ clock = 0
  /\ task_table = EmptyTasks(FALSE)
  /\ served = [u \in Users |-> NoTurn]
  /\ alone = [u \in Users |-> [table |-> <<>>, tasks |-> EmptyTasks(FALSE),
                               last |-> NoTurn]]
  /\ tool_call_table = <<>>

\* process_message of an agent that keeps the turn it processed last on the
\* instance and resolves the context from it as well
process_message_remembering(agent, user_message, conversation_history) ==
  IF agent = "MockProvider"
    THEN MockProvider_process_message(
           user_message,
           IF call = NoCall THEN conversation_history
           ELSE conversation_history
                \o << Msg("user", call.user_message),
                      Msg("assistant", call.response.response_text) >>)
    ELSE TodoAgent_process_message(user_message, conversation_history)

\* agent.process_message of the agent that serves the request: the
\* TodoAgent create_agent() builds, or MockProvider
process_message(agent, user_message, conversation_history) ==
  IF agent = "MockProvider"
    THEN MockProvider_process_message(user_message, conversation_history)
    ELSE TodoAgent_process_message(user_message, conversation_history)

\* chat() from the tool results on: the final response comes from
\* process_tool_results, and the user message, the initial response and the
\* final response are stored
chat_tool_path(message, messages, history_messages, agent_response, executed) ==
  [history |-> messages \o << Msg("user", message),
                              Msg("assistant",
                                  IF agent_response.response_text # <<>>
                                    THEN agent_response.response_text
                                    ELSE <<"Processing", "...">>),
                              Msg("assistant", process_tool_results(executed[1])) >>,
   store |-> executed[2],
   last |-> [input |-> message, context |-> history_messages,
             response |-> agent_response, results |-> executed[1],
             reply |-> process_tool_results(executed[1]), status |-> 200]]

\* chat() from the agent's response on: the tools run when the response
\* asks for them, else the response text is stored as the reply
chat_response(message, messages, tasks, history_messages, agent_response) ==
  IF agent_response.requires_tool_execution
    THEN chat_tool_path(message, messages, history_messages, agent_response,
                        execute_tool_calls(agent_response.tool_calls, tasks))
    ELSE [history |-> messages \o << Msg("user", message),
                                     Msg("assistant", agent_response.response_text) >>,
          store |-> tasks,
          last |-> [input |-> message, context |-> history_messages,
                    response |-> agent_response, results |-> <<>>,
                    reply |-> agent_response.response_text, status |-> 200]]

\* chat() from the history read on: store_message refuses an empty message
\* and the request ends as HTTP 500 with nothing stored, else the agent
\* is asked
chat_stored(agent, message, messages, tasks, history_messages) ==
  IF ~CanStore(message)
    THEN [history |-> messages, store |-> tasks,
          last |-> [NoTurn EXCEPT !.input = message,
                                  !.context = history_messages,
                                  !.status = 500]]
    ELSE chat_response(message, messages, tasks, history_messages,
                       process_message(agent, message, history_messages))

\* chat() served by agent over the rows messages and the table tasks: the
\* rows and the table after the request, and the record of the request
chat(agent, message, messages, tasks) ==
  chat_stored(agent, message, messages, tasks,
              get_conversation_context(messages, MaxMessages))

\* ------------------------------------------------------------- the requests
\* the messages users send to the endpoint as shipped
ChatInputs ==
  { <<"Delete", "task", ToStr(n)>> : n \in TaskIds }
  \cup { <<"complete", "task", ToStr(n)>> : n \in TaskIds }
  \cup { <<"yes">>, <<"add", "task", "buy", "milk">>, <<"show", "my", "tasks">>,
         <<"hello">>, <<>>,
         <<"ur_fehrist", "ur_dikhaen">>,
         <<"ur_doodh", "ur_shamil", "ur_karen">>,
         <<"ur_salam">> }

\* the message of the end-to-end scenario
GroceriesInput == <<"Add", "a", "task", "to", "buy", "groceries", "tomorrow">>
\* the messages of a conversation held with MockProvider
ProviderInputs ==
  { <<"delete", "task", ToStr(n)>> : n \in TaskIds }
  \cup { <<"yes">>, <<"no">>, <<"don't", "do", "it">>,
         <<"add", "task", "buy", "milk">>, <<"delete", "that">>,
         <<"Actually", ",", "complete", "it">>,
         <<"yes", ",", "add", "task", "buy", "milk">>,
         <<"1", "ur_hazf">>, <<"ur_haan">>,
         <<"add", "task", "delete", "task", "2">>, GroceriesInput }

\* the history of test_context_resolution_logic, and the table it speaks of
SeededHistory ==
  << Msg("user", <<"Add", "task", "Buy", "milk">>),
     Msg("assistant", <<"Task", "added", "successfully", ".", "(", "ID", ":", "5", ")">>) >>
SeededStore ==
  [rows |-> <<Task(5, <<"Buy", "milk">>, FALSE)>>, next |-> 6, wide |-> FALSE]

Init ==
  /\ history = <<>>
  /\ store \in { [EmptyStore EXCEPT !.wide = w] : w \in BOOLEAN }
  /\ turns = 0
  /\ last = NoTurn
  /\ NoDirectCalls
  /\ NoTables

\* POST /api/chat as shipped: create_agent() gives a TodoAgent
Chat(message) ==
  /\ turns < MaxTurns
  /\ \E out \in { chat("TodoAgent", message, history, store) } :
       /\ history' = out.history
       /\ store' = out.store
       /\ last' = out.last
  /\ turns' = turns + 1
  /\ UNCHANGED << direct, tables >>

Next == \E message \in ChatInputs : Chat(message)

Spec == Init /\ [][Next]_vars

\* a tasks table whose key sequence stands at 41: the next task gets id 42
GroceriesStore == [rows |-> <<>>, next |-> 42, wide |-> FALSE]
\* a conversation with MockProvider starts empty or from the history a
\* caller hands over
InitProvider ==
  /\ \/ history = <<>> /\ store \in { EmptyStore, GroceriesStore }
     \/ history = SeededHistory /\ store = SeededStore
  /\ turns = 0
  /\ last = NoTurn
  /\ NoDirectCalls
  /\ NoTables

\* the same request served with MockProvider deciding the turn
ProviderChat(message) ==
  /\ turns < MaxTurns
  /\ \E out \in { chat("MockProvider", message, history, store) } :
       /\ history' = out.history
       /\ store' = out.store
       /\ last' = out.last
  /\ turns' = turns + 1
  /\ UNCHANGED << direct, tables >>

NextProvider == \E message \in ProviderInputs : ProviderChat(message)

SpecProvider == InitProvider /\ [][NextProvider]_vars

\* ------------------------------------------- process_message called directly
\* the messages handed to process_message by a direct caller: "" (and text
\* that is white space only, which strip() empties), text no rule knows,
\* and text for each rule
EngineInputs ==
  { <<>>, <<"hello">>, <<"ur_salam">>,
    <<"task", "1">>, <<"add", "task", "5">>, <<"add", "5">>,
    <<"add", "task", "buy", "milk">>, <<"task", "to", "buy", "milk">>,
    <<"show", "my", "tasks">>,
    <<"delete", "task", "1">>, <<"complete", "task", "1">>,
    <<"update", "task", "1", "to", "buy", "bread">>,
    <<"delete", "that">>, <<"complete", "it">>,
    <<"yes">>, <<"no">>, <<"yes", ",", "add", "task", "buy", "milk">>,
    <<"ur_fehrist", "ur_dikhaen">>, <<"ur_doodh", "ur_shamil", "ur_karen">>,
    <<"1", "ur_hazf">>, <<"ur_haan">>, <<"ur_nahin">> }

\* a history that ends with the confirmation question for task 2, and one
\* where an Agent turn follows the question
PendingHistory ==
  << Msg("user", <<"delete", "task", "2">>), Msg("assistant", SureQuestion("2")) >>
LapsedHistory ==
  PendingHistory
  \o << Msg("user", <<"hello">>), Msg("assistant", UnknownReply(FALSE)) >>
\* the histories handed to process_message by a direct caller
EngineHistories == { <<>>, SeededHistory, PendingHistory, LapsedHistory }
Agents == { "MockProvider", "TodoAgent" }

InitEngine ==
  /\ history \in EngineHistories
  /\ store = EmptyStore
  /\ turns = 0
  /\ last = NoTurn
  /\ NoDirectCalls
  /\ NoTables

\* agent.process_message(user_message, conversation_history=history): the
\* caller gets the response; nothing is stored and no tool runs.  The
\* call made before may be kept as the one to compare with.
Process(agent, user_message) ==
  /\ call' = [agent |-> agent, user_message |-> user_message,
              conversation_history |-> history,
              response |-> process_message(agent, user_message, history)]
  /\ seen' \in IF seen = NoCall /\ call # NoCall THEN { NoCall, call } ELSE { seen }
  /\ UNCHANGED << history, store, turns, last, tables >>

NextEngine ==
  \E agent \in Agents : \E user_message \in EngineInputs : Process(agent, user_message)

SpecEngine == InitEngine /\ [][NextEngine]_vars


\* ------------------------------------------------- conversation_repo, tables
\* the rows a caller may store
MaxRows == 4
Roles == { "user", "assistant" }

\* INSERT INTO conversation_messages: the row gets the next rowid
insert_message_replacing(rows, user_id, role, content, timestamp) ==
  SelectSeq(rows, LAMBDA r : r.user_id # user_id)
  \o << [id |-> Len(rows) + 1, user_id |-> user_id, role |-> role,
         content |-> content, timestamp |-> timestamp] >>
insert_message(rows, user_id, role, content, timestamp) ==
  Append(rows, [id |-> Len(rows) + 1, user_id |-> user_id, role |-> role,
                content |-> content, timestamp |-> timestamp])

\* ORDER BY timestamp ASC with no other key: the query runs over the index
\* idx_conversation_user_timestamp (user_id, timestamp DESC) read backwards,
\* which yields rows of equal timestamp from the highest rowid down
ComesBefore(a, b) ==
  \/ a.timestamp < b.timestamp
  \/ a.timestamp = b.timestamp /\ a.id > b.id
RECURSIVE OrderByTimestamp(_)
OrderByTimestamp(S) ==
  IF S = {} THEN <<>>
  ELSE LET first == CHOOSE r \in S : \A o \in S \ {r} : ComesBefore(r, o)
       IN <<first>> \o OrderByTimestamp(S \ {first})
\* SELECT ... WHERE user_id = ? ORDER BY timestamp ASC
select_messages(rows, user_id) ==
  OrderByTimestamp({ rows[i] : i \in { n \in 1..Len(rows) : rows[n].user_id = user_id } })

\* SELECT ... WHERE id = ?: the row of that id, whoever stored it
get_message_by_id_alone(rows, message_id, user_id) ==
  SelectSeq(rows, LAMBDA r : r.id = message_id)
\* SELECT ... WHERE id = ? AND user_id = ?: <<>> stands for None
get_message_by_id(rows, message_id, user_id) ==
  SelectSeq(rows, LAMBDA r : r.id = message_id /\ r.user_id = user_id)
\* SELECT ... WHERE user_id = ? ORDER BY timestamp DESC LIMIT 1: the index
\* is read forwards, which yields rows of equal timestamp from the lowest
\* rowid up; <<>> stands for None
get_latest_message(rows, user_id) ==
  SelectSeq(rows, LAMBDA r :
    /\ r.user_id = user_id
    /\ \A i \in 1..Len(rows) :
         (rows[i].user_id = user_id /\ rows[i].id # r.id) =>
           \/ rows[i].timestamp < r.timestamp
           \/ rows[i].timestamp = r.timestamp /\ rows[i].id > r.id)
\* SELECT COUNT(*) ... WHERE user_id = ?
count_user_messages(rows, user_id) ==
  Cardinality({ i \in 1..Len(rows) : rows[i].user_id = user_id })

\* DELETE FROM conversation_messages WHERE user_id = ?: the rows of the
\* user are gone, their rowids are not given again
DeletedRow(id) ==
  [id |-> id, user_id |-> 0, role |-> "none", content |-> <<>>, timestamp |-> 0]
delete_user_messages(rows, user_id) ==
  [i \in 1..Len(rows) |->
     IF rows[i].user_id = user_id THEN DeletedRow(rows[i].id) ELSE rows[i]]

\* -------------------------------------------------------- tool_call_repo
\* store_tool_call: ValueError for a message_id that is not positive, else
\* INSERT INTO tool_calls; no connection sets PRAGMA foreign_keys, so the
\* FOREIGN KEY clause of the schema is not enforced
store_tool_call(rows, message_id, tool_name, status) ==
  IF message_id <= 0 THEN rows
  ELSE Append(rows, [id |-> Len(rows) + 1, message_id |-> message_id,
                     tool_name |-> tool_name, status |-> status])
\* the store_tool_call calls of chat(), one for each tool call and its
\* result, all for the message that holds the initial response
RECURSIVE store_tool_calls(_, _, _, _)
store_tool_calls(rows, message_id, tool_calls, results) ==
  IF tool_calls = <<>> \/ results = <<>> THEN rows
  ELSE store_tool_calls(
         store_tool_call(rows, message_id, Head(tool_calls).name,
                         IF Head(results).success THEN "success" ELSE "failure"),
         message_id, Tail(tool_calls), Tail(results))

InitRepo ==
  /\ history = <<>>
  /\ store = EmptyStore
  /\ turns = 0
  /\ last = NoTurn
  /\ NoDirectCalls
  /\ NoTables

\* store_message(user_id, role, content): an empty content raises
\* ValueError and stores nothing; else the row is inserted with the
\* reading of datetime.now(), which is the reading before or a later one
StoreMessage(user_id, role, content) ==
  /\ Len(table) < MaxRows
  /\ \E now \in { clock, clock + 1 } \cap 0..MaxRows :
       /\ clock' = now
       /\ table' = IF CanStore(content)
                     THEN insert_message(table, user_id, role, content, now)
                     ELSE table
  /\ UNCHANGED << history, store, turns, last, direct, task_table, served, alone,
                  tool_call_table >>

NextRepo ==
  \E user_id \in Users : \E role \in Roles : \E content \in { <<>>, <<"hello">> } :
    StoreMessage(user_id, role, content)

SpecRepo == InitRepo /\ [][NextRepo]_vars

\* ------------------------------------------------ the requests of all users
\* the messages the users send
UserInputs ==
  { <<"add", "task", "buy", "milk">>, <<"Delete", "task", "1">>,
    <<"show", "my", "tasks">>, <<>> }

\* the rows of a query as the role and content chat() hands to the agent
as_messages(selected) ==
  [i \in 1..Len(selected) |-> Msg(selected[i].role, selected[i].content)]
\* get_conversation_context(user_id, ...) before the LIMIT is applied
messages_of(rows, user_id) == as_messages(select_messages(rows, user_id))
\* the tasks a tool reaches for the user: the rows WHERE user_id = ?, and
\* the AUTOINCREMENT counter of the table
tasks_of(tasks, user_id) ==
  [rows |-> tasks.rows[user_id], next |-> tasks.next, wide |-> tasks.wide]
\* the tasks table once the tools of a request of the user have run
tasks_after(tasks, user_id, out) ==
  [tasks EXCEPT !.rows[user_id] = out.store.rows, !.next = out.store.next]
\* the messages a request stored, in the order of its store_message calls
new_messages(out, rows, user_id) ==
  SubSeq(out.history, Len(select_messages(rows, user_id)) + 1, Len(out.history))
\* the store_message calls of a request: each reads datetime.now(), which
\* has advanced by step since the reading before
RECURSIVE store_messages(_, _, _, _, _)
store_messages(rows, user_id, new, now, step) ==
  IF new = <<>> THEN rows
  ELSE store_messages(insert_message(rows, user_id, Head(new).role,
                                     Head(new).content, now + step),
                      user_id, Tail(new), now + step, step)
\* chat() for the user over the tables rows and tasks
chat_of_user(user_id, message, rows, tasks) ==
  chat("TodoAgent", message, messages_of(rows, user_id), tasks_of(tasks, user_id))
\* the tables and the request when the request is served over the tables
\* only this user has written to
chat_alone(user_id, own, out, now, step) ==
  [table |-> store_messages(own.table, user_id,
                            new_messages(out, own.table, user_id), now, step),
   tasks |-> tasks_after(own.tasks, user_id, out),
   last |-> out.last]

InitUsers ==
  /\ history = <<>>
  /\ store = EmptyStore
  /\ turns = 0
  /\ last = NoTurn
  /\ NoDirectCalls
  /\ NoTables

\* POST /api/chat of one of the users: the requests of the users are served
\* one after another in any order, each over the tables the requests before
\* left
UserChat(user_id, message, step) ==
  /\ turns < MaxTurns
  /\ \E out \in { chat_of_user(user_id, message, table, task_table) } :
       /\ table' = store_messages(table, user_id,
                                  new_messages(out, table, user_id), clock, step)
       /\ clock' = clock + step * Len(new_messages(out, table, user_id))
       /\ task_table' = tasks_after(task_table, user_id, out)
       /\ served' = [served EXCEPT ![user_id] = out.last]
       /\ tool_call_table' = store_tool_calls(tool_call_table, Len(table) + 2,
                                              out.last.response.tool_calls,
                                              out.last.results)
  /\ \E out \in { chat_of_user(user_id, message, alone[user_id].table,
                               alone[user_id].tasks) } :
       alone' = [alone EXCEPT ![user_id] =
                   chat_alone(user_id, alone[user_id], out, clock, step)]
  /\ turns' = turns + 1
  /\ UNCHANGED << history, store, last, direct >>

NextUsers ==
  \E user_id \in Users : \E message \in UserInputs : \E step \in { 0, 1 } :
    UserChat(user_id, message, step)

SpecUsers == InitUsers /\ [][NextUsers]_vars

\* ------------------------------------------- execute_tool_calls called alone
\* the lists of tool calls handed over
MaxCalls == 2
\* the tool calls a caller may hand over: every tool of TOOL_MAP the agents
\* name, a name TOOL_MAP does not hold, a title that is empty, one that is
\* no str and one in Urdu, ids that exist or not
ToolCalls ==
  { Call("create_todo", None, <<"Buy", "milk">>, TRUE, FALSE),
    Call("create_todo", None, <<>>, TRUE, FALSE),
    Call("create_todo", None, NonStr, TRUE, FALSE),
    Call("create_todo", None, <<"ur_doodh">>, TRUE, FALSE),
    Call("list_todos", None, <<>>, FALSE, FALSE),
    Call("update_todo", 1, <<>>, FALSE, TRUE),
    Call("delete_todo", 1, <<>>, FALSE, FALSE),
    Call("delete_todo", 2, <<>>, FALSE, FALSE),
    Call("get_weather", None, <<>>, FALSE, FALSE) }
\* the same calls with the user_id the agent wrote into the input
CarriedCalls == { [c EXCEPT !.user_id = u] : c \in ToolCalls, u \in Users }
\* the lists handed over: none, one call, or a call after one that fails
\* or that brings Urdu into the results
ToolCallLists ==
  { <<>> } \cup { <<c>> : c \in CarriedCalls }
  \cup { <<f, c>> : f \in { Call("get_weather", None, <<>>, FALSE, FALSE),
                           Call("create_todo", None, NonStr, TRUE, FALSE),
                           Call("delete_todo", 2, <<>>, FALSE, FALSE),
                           Call("create_todo", None, <<"ur_doodh">>, TRUE, FALSE) },
                    c \in { c \in CarriedCalls :
                              /\ c.name \in { "create_todo", "delete_todo" }
                              /\ c.title \in { <<>>, <<"Buy", "milk">> }
                              /\ c.todo_id \in { None, 1 } } }

\* the result of a tool, and the tasks table of all users once the rows
\* of user_id are those the tool left
tool_outcome(out, tasks, user_id) ==
  << out[1], tasks_after(tasks, user_id, [store |-> out[2]]) >>
\* the tool runs over the rows WHERE user_id = ? of the parameter user_id
run_with_user_id(tool_call, tasks, user_id) ==
  tool_outcome(RunTool([tool_call EXCEPT !.user_id = user_id],
                       tasks_of(tasks, user_id)),
               tasks, user_id)
\* results.append(...) ahead of the results of the calls that follow
results_after(first, rest) == << <<first[1]>> \o rest[1], rest[2] >>
\* the loop of execute_tool_calls, where the tool ran with the user_id its
\* input carried
RECURSIVE execute_with_carried_user_id(_, _, _)
execute_with_carried_rest(first, tool_calls, user_id) ==
  results_after(first, execute_with_carried_user_id(tool_calls, first[2], user_id))
execute_with_carried_user_id(tool_calls, tasks, user_id) ==
  IF tool_calls = <<>> THEN << <<>>, tasks >>
  ELSE execute_with_carried_rest(
         run_with_user_id(Head(tool_calls), tasks, Head(tool_calls).user_id),
         Tail(tool_calls), user_id)
\* the loop of execute_tool_calls left at the first call that fails
RECURSIVE execute_stopping_at_failure(_, _, _)
execute_stopping_rest(first, tool_calls, user_id) ==
  IF ~first[1].success THEN << <<first[1]>>, first[2] >>
  ELSE results_after(first, execute_stopping_at_failure(tool_calls, first[2], user_id))
execute_stopping_at_failure(tool_calls, tasks, user_id) ==
  IF tool_calls = <<>> THEN << <<>>, tasks >>
  ELSE execute_stopping_rest(run_with_user_id(Head(tool_calls), tasks, user_id),
                             Tail(tool_calls), user_id)
\* execute_tool_calls(tool_calls, user_id) over the tasks table of all
\* users, parameters["user_id"] = user_id ahead of each tool:
\* <<results, tasks table after all the calls>>
RECURSIVE execute_tool_calls_of_user(_, _, _)
execute_rest_of_user(first, tool_calls, user_id) ==
  results_after(first, execute_tool_calls_of_user(tool_calls, first[2], user_id))
execute_tool_calls_of_user(tool_calls, tasks, user_id) ==
  IF tool_calls = <<>> THEN << <<>>, tasks >>
  ELSE execute_rest_of_user(run_with_user_id(Head(tool_calls), tasks, user_id),
                            Tail(tool_calls), user_id)

\* what a caller of execute_tool_calls and process_tool_results holds
ToolTurn(tool_calls, results) ==
  [NoTurn EXCEPT !.response = Response(<<>>, tool_calls, FALSE, "none"),
                 !.results = results,
                 !.reply = process_tool_results(results),
                 !.status = 200]

InitTools ==
  /\ history = <<>>
  /\ store = EmptyStore
  /\ turns = 0
  /\ last = NoTurn
  /\ NoDirectCalls
  /\ table = <<>>
  /\ clock = 0
  /\ task_table \in { EmptyTasks(wide) : wide \in BOOLEAN }
  /\ served = [u \in Users |-> NoTurn]
  /\ alone = [u \in Users |-> [table |-> <<>>, tasks |-> EmptyTasks(FALSE),
                               last |-> NoTurn]]
  /\ tool_call_table = <<>>

\* results = await execute_tool_calls(tool_calls, user_id), then
\* agent.process_tool_results(results, user_id)
ExecuteToolCalls(user_id, tool_calls) ==
  /\ turns < MaxCalls
  /\ \E out \in { execute_tool_calls_of_user(tool_calls, task_table, user_id) } :
       /\ task_table' = out[2]
       /\ \E turn \in { ToolTurn(tool_calls, out[1]) } :
            /\ last' = turn
            /\ served' = [served EXCEPT ![user_id] = turn]
  /\ turns' = turns + 1
  /\ UNCHANGED << history, store, direct, table, clock, alone, tool_call_table >>

NextTools ==
  \E user_id \in Users : \E tool_calls \in ToolCallLists :
    ExecuteToolCalls(user_id, tool_calls)

SpecTools == InitTools /\ [][NextTools]_vars

\* ------------------------------------- messages and their tool call records
InitLinks ==
  /\ history = <<>>
  /\ store = EmptyStore
  /\ turns = 0
  /\ last = NoTurn
  /\ NoDirectCalls
  /\ NoTables

\* store_tool_call(message_id, tool_name, parameters, result, status)
StoreToolCall(message_id, status) ==
  /\ Len(tool_call_table) < MaxCalls
  /\ tool_call_table' = store_tool_call(tool_call_table, message_id,
                                        "create_todo", status)
  /\ UNCHANGED << history, store, turns, last, direct, table, clock, task_table,
                  served, alone >>

\* delete_user_messages(user_id)
DeleteUserMessages(user_id) ==
  /\ table' = delete_user_messages(table, user_id)
  /\ UNCHANGED << history, store, turns, last, direct, clock, task_table,
                  served, alone, tool_call_table >>

NextLinks ==
  \/ \E user_id \in Users : StoreMessage(user_id, "assistant", <<"Processing", "...">>)
  \/ \E message_id \in 0..MaxRows : \E status \in { "success", "failure" } :
       StoreToolCall(message_id, status)
  \/ \E user_id \in Users : DeleteUserMessages(user_id)

SpecLinks == InitLinks /\ [][NextLinks]_vars

\* ------------------------------------- process_message, the order of rules
\* the messages that name a task in each way the rules know: the examples
\* of the rule comments, the same without the noun, with the other form of
\* the verb, with each ordinal, and English requests by id and by reference
RuleInputs ==
  { <<"ur_task", "5", "ur_mukammal", "ur_karen">>,
    <<"ur_task", "10", "ur_hazf", "ur_karen">>,
    <<"5", "ur_mukammal", "ur_karen">>, <<"10", "ur_hazf", "ur_karen">>,
    <<"5", "ur_mukammal", "ur_karo">>, <<"2", "ur_hazf", "ur_karo">>,
    <<"ur_pehla", "ur_kaam", "ur_mukammal", "ur_karo">>,
    <<"ur_doosra", "ur_kaam", "ur_hazf", "ur_karo">>,
    <<"ur_teesra", "ur_kaam", "ur_ko", "ur_doodh", "ur_karo">>,
    <<"ur_chautha", "ur_kaam", "ur_hazf", "ur_karo">>,
    <<"ur_panchwan", "ur_kaam", "ur_mukammal", "ur_karo">>,
    <<"ur_pehla", "ur_task", "ur_mukammal", "ur_karo">>,
    <<"ur_doosra", "ur_hazf", "ur_karen">>,
    <<"ur_fehrist", "ur_dikhaen">>, <<"ur_doodh", "ur_shamil", "ur_karen">>,
    <<"delete", "task", "2">>, <<"delete", "it">> }

\* a direct caller's history: none, or one with a reference to task 5
InitRules ==
  /\ history \in { <<>>, SeededHistory }
  /\ store = EmptyStore
  /\ turns = 0
  /\ last = NoTurn
  /\ NoDirectCalls
  /\ NoTables

NextRules ==
  \E agent \in Agents : \E user_message \in RuleInputs : Process(agent, user_message)

SpecRules == InitRules /\ [][NextRules]_vars

\* ------------------------------------------------------------ what is checked
\* the context the agent resolved in the request served last, and the
\* message as the confirmation flow reads it
LastContext == get_context_from_history(last.context)
LastMsg ==
  IF is_urdu(last.input) THEN normalize_urdu(Lower(last.input))
  ELSE Lower(last.input)
Served == last.status = 200
\* a pending delete confirmation for task id
PendingFor(context, id) ==
  context.pending_action = "delete" /\ context.pending_id = id
HasPending(context) ==
  context.pending_action = "delete" /\ Truthy(context.pending_id)
\* the calls of a response that name the tool
CallsOf(response, name) ==
  { i \in 1..Len(response.tool_calls) : response.tool_calls[i].name = name }
\* text is a delete confirmation question for task id
AsksToDelete(text, id) == confirmation_match(Lower(text)) = id
\* the id a delete request resolves to: the one its digits name, or
\* last_id for a bare reference; None for a request that names its task
\* in another way
RequestedId(context) ==
  LET num == IF is_urdu(last.input)
               THEN ur_num_verb(last.input, UrDeleteVerbs).num
               ELSE en_verb_id(LastMsg, DeleteVerbs, MockNouns).num
  IN IF last.response.intent = "delete_context" THEN context.last_id
     ELSE IF IsNum(num) THEN ToInt(num)
     ELSE None

\* C1: with no pending confirmation in the history, a delete request whose
\* task id is resolvable (named in digits in the input, or "delete that"
\* with a last referenced id) is answered with the confirmation question for that
\* id and with no tool call: nothing is deleted in that turn.
C1_DeleteRequestAsksFirst ==
  (Served /\ last.response.intent \in {"delete_request", "delete_context"})
  => LET context == LastContext
         id == RequestedId(context)
     IN (~HasPending(context) /\ Truthy(id))
        => /\ AsksToDelete(last.response.response_text, id)
           /\ last.reply = last.response.response_text
           /\ last.response.tool_calls = <<>>
           /\ ~last.response.requires_tool_execution
           /\ last.results = <<>>

C1_Witness ==
  /\ Served
  /\ ~HasPending(LastContext)
  /\ last.input = <<"delete", "that">>
  /\ LastContext.last_id = 5
  /\ AsksToDelete(last.reply, 5)
  /\ last.response.tool_calls = <<>>

\* C2: in every turn of the chat endpoint a delete_todo is executed only
\* when the history read for the turn holds a pending delete confirmation
\* for that task id and the input is affirmative.
C2_DeleteOnlyAfterConfirmation ==
  Served =>
    \A i \in CallsOf(last.response, "delete_todo") :
      /\ PendingFor(LastContext, last.response.tool_calls[i].todo_id)
      /\ yes_pattern(LastMsg)

\* C3: with a pending delete of id in the resolved context and an input
\* that matches the affirmative pattern, the turn returns exactly one tool
\* call, delete_todo of that id, whatever else the input contains.
C3_AffirmativeDeletesPending ==
  (Served /\ yes_pattern(LastMsg))
  => LET context == LastContext
     IN HasPending(context)
        => /\ Len(last.response.tool_calls) = 1
           /\ last.response.tool_calls[1].name = "delete_todo"
           /\ last.response.tool_calls[1].todo_id = context.pending_id
           /\ last.response.requires_tool_execution

C3_Witness ==
  /\ Served
  /\ HasPending(LastContext)
  /\ last.input = <<"yes", ",", "add", "task", "buy", "milk">>
  /\ LastContext.pending_id = 2
  /\ last.response.tool_calls = <<Call("delete_todo", 2, <<>>, FALSE, FALSE)>>

\* C4: with a pending delete confirmation and an input that matches the
\* negative pattern, the turn replies with the cancellation sentence and
\* returns no tool call.
C4_NegativeCancels ==
  (Served /\ HasPending(LastContext) /\ no_pattern(LastMsg))
  => /\ last.response.tool_calls = <<>>
     /\ last.response.response_text
          \in {<<"Deletion", "cancelled", ".">>, <<"ur_reply_cancel">>}


\* the Agent turns of a history, and whether a message is a delete
\* confirmation question
AgentTurns(h) == { i \in 1..Len(h) : h[i].role = "assistant" }
IsConfirmationQuestion(m) ==
  m.role = "assistant" /\ confirmation_match(Lower(m.content)) # None
\* the most recent Agent turn of h is a delete confirmation question
NewestAgentTurnAsks(h) ==
  /\ AgentTurns(h) # {}
  /\ IsConfirmationQuestion(h[MaxOf(AgentTurns(h))])

\* C5: the context resolver yields a pending action only when the most
\* recent Agent turn of the history is a delete confirmation question; an
\* Agent turn of another kind after the latest question clears it.
C5_PendingOnlyFromNewestAgentTurn ==
  get_context_from_history(history).pending_action = "delete"
    => NewestAgentTurnAsks(history)

\* C6: a confirmation question authorises the next user turn only: an
\* affirmative input whose history does not end with a confirmation
\* question as its most recent Agent turn dispatches no delete_todo.
C6_ConfirmationLapses ==
  (Served /\ yes_pattern(LastMsg) /\ ~NewestAgentTurnAsks(last.context))
    => CallsOf(last.response, "delete_todo") = {}

\* a history with the same last referenced id and no confirmation question
WithoutPending(context) ==
  IF Truthy(context.last_id)
    THEN << Msg("user", <<"task", ToStr(context.last_id)>>) >>
    ELSE <<>>

\* C7: with a pending delete confirmation and an input that matches neither
\* the affirmative nor the negative pattern, the turn is decided by the
\* rule list exactly as with no pending confirmation: "add task buy milk"
\* dispatches create_todo, and nothing is deleted.
C7_NeitherFallsThrough ==
  (Served /\ ~yes_pattern(LastMsg) /\ ~no_pattern(LastMsg))
  => LET context == LastContext
     IN HasPending(context)
        => /\ last.response =
                MockProvider_process_message(last.input, WithoutPending(context))
           /\ CallsOf(last.response, "delete_todo") = {}
           /\ last.input = <<"add", "task", "buy", "milk">>
                => last.response.tool_calls =
                     << Call("create_todo", None, <<"Buy", "milk">>, TRUE, FALSE) >>

C7_Witness ==
  /\ Served
  /\ HasPending(LastContext)
  /\ last.input = <<"add", "task", "buy", "milk">>
  /\ last.response.tool_calls =
       << Call("create_todo", None, <<"Buy", "milk">>, TRUE, FALSE) >>
  /\ Len(store.rows) > 0

\* C8: a bare reference ("complete it", "delete that") acts on the last
\* referenced task id of the context: complete dispatches update_todo of
\* that id, delete asks to confirm that id; with no last referenced id the
\* turn asks which task is meant and returns no tool call.  After the
\* history [User "Add task Buy milk", Agent "Task added successfully.
\* (ID: 5)"] the input "Actually, complete it" completes task 5.
C8_BareReferenceUsesLastId ==
  (Served /\ last.response.intent \in {"complete_context", "delete_context"})
  => LET last_id == LastContext.last_id
     IN /\ last.response.intent = "complete_context"
             => IF Truthy(last_id)
                  THEN last.response.tool_calls =
                         << Call("update_todo", last_id, <<>>, FALSE, TRUE) >>
                  ELSE /\ last.response.tool_calls = <<>>
                       /\ last.reply =
                            <<"Which", "task", "would", "you", "like", "to", "complete", "?">>
        /\ last.response.intent = "delete_context"
             => /\ last.response.tool_calls = <<>>
                /\ IF Truthy(last_id)
                     THEN AsksToDelete(last.reply, last_id)
                     ELSE last.reply =
                            <<"Which", "task", "would", "you", "like", "to", "delete", "?">>
        /\ (last.context = SeededHistory
               /\ last.input = <<"Actually", ",", "complete", "it">>)
             => last.response.tool_calls =
                  << Call("update_todo", 5, <<>>, FALSE, TRUE) >>

C8_Witness ==
  /\ Served
  /\ last.context = SeededHistory
  /\ last.input = <<"Actually", ",", "complete", "it">>
  /\ last.response.tool_calls = << Call("update_todo", 5, <<>>, FALSE, TRUE) >>
  /\ store.rows = << Task(5, <<"Buy", "milk">>, TRUE) >>

\* the turns that carry a task reference; a confirmation question is one
\* of them, since it names its task
RefTurns(h) == { i \in 1..Len(h) : id_match(Lower(h[i].content)) # None }

ReplyIsUrdu(reply) == reply # <<>> /\ is_urdu(<<reply[1]>>)

\* C10: the final reply of every turn is in the language of the turn's
\* input: Urdu when the input holds an Urdu character, English otherwise.
C10_ReplyMirrorsInputLanguage ==
  Served => (ReplyIsUrdu(last.reply) <=> is_urdu(last.input))

\* the turns of a role among the stored messages
TurnsOf(h, role) == { i \in 1..Len(h) : h[i].role = role }

\* C11: after every number of invocations of the chat endpoint the stored
\* history holds exactly one User turn and exactly one Agent turn per
\* invocation, whatever path each invocation took (no tool call, tool
\* calls, tool failure, internal error).
C11_OneTurnPerSidePerInvocation ==
  /\ Cardinality(TurnsOf(history, "user")) = turns
  /\ Cardinality(TurnsOf(history, "assistant")) = turns

\* C14: every invocation of the chat endpoint whose message passes the
\* request schema (whitespace-only text included) returns a reply to the
\* caller: no invocation ends as an error response.
C14_EveryInvocationReplies ==
  turns > 0 => (last.status = 200 /\ last.reply # <<>>)

\* ------------------------------------------ what is checked of direct calls
Called == call # NoCall
\* msg of the call: the message lowered, and normalised when it is Urdu
CallMsg ==
  IF is_urdu(call.user_message) THEN normalize_urdu(Lower(call.user_message))
  ELSE Lower(call.user_message)
CallContext == get_context_from_history(call.conversation_history)
\* some rule of MockProvider's English list matches msg; some rule of its
\* Urdu list matches the message
EnglishRuleMatches(msg) ==
  \/ en_list(msg)
  \/ en_add(msg, TRUE).matched
  \/ en_add_implicit(msg).matched
  \/ en_context(msg, CompleteContextVerbs)
  \/ en_context(msg, DeleteContextVerbs)
  \/ en_verb_id(msg, CompleteVerbs, MockNouns).matched
  \/ en_verb_id(msg, DeleteVerbs, MockNouns).matched
  \/ en_update(msg, UpdateVerbs, MockNouns).matched
UrduRuleMatches(um) ==
  \/ ur_list(um)
  \/ ur_add_mock(um).matched
  \/ ur_num_verb(um, UrCompleteVerbs).matched
  \/ ur_num_verb(um, UrDeleteVerbs).matched
  \/ ur_update(um).matched
\* the call is an answer to a pending confirmation
AnswersPending ==
  HasPending(CallContext) /\ (yes_pattern(CallMsg) \/ no_pattern(CallMsg))
\* no rule matches the input of the call
NoRuleMatches ==
  /\ ~AnswersPending
  /\ IF is_urdu(call.user_message) THEN ~UrduRuleMatches(call.user_message)
     ELSE ~EnglishRuleMatches(CallMsg)

\* C15: when the input of a call of MockProvider.process_message matches
\* no rule of its language and answers no pending confirmation (the input
\* "" and white space included, with any history), the call returns the
\* fixed help reply in the language of the input, no tool call, and
\* requires_tool_execution false.
C15_NoRuleGivesHelpReply ==
  (Called /\ call.agent = "MockProvider" /\ NoRuleMatches)
  => /\ call.response.response_text = UnknownReply(is_urdu(call.user_message))
     /\ ReplyIsUrdu(call.response.response_text) <=> is_urdu(call.user_message)
     /\ call.response.tool_calls = <<>>
     /\ ~call.response.requires_tool_execution
     /\ call.response.language = IF is_urdu(call.user_message) THEN "ur" ELSE "en"

C15_Witness ==
  /\ Called /\ call.agent = "MockProvider" /\ NoRuleMatches
  /\ call.user_message = <<>>
  /\ HasPending(CallContext)
  /\ call.response.response_text = UnknownReply(FALSE)
  /\ seen # NoCall /\ seen.agent = "MockProvider"
  /\ seen.user_message = <<"ur_salam">>
  /\ seen.response.response_text = UnknownReply(TRUE)

\* a title that is digits only
NumericTitle(title) == Len(title) = 1 /\ IsNum(title[1])

\* C16: no call of process_message returns a create_todo whose title is
\* digits only.
C16_NoNumericTitleCreated ==
  Called =>
    \A i \in CallsOf(call.response, "create_todo") :
      ~NumericTitle(call.response.tool_calls[i].title)

\* C17: every call of process_message, of MockProvider and of TodoAgent,
\* returns at most one tool call.
C17_AtMostOneToolCall ==
  Called => Len(call.response.tool_calls) <= 1

C17_Witness ==
  /\ Called /\ call.agent = "MockProvider"
  /\ call.user_message = <<"yes", ",", "add", "task", "buy", "milk">>
  /\ HasPending(CallContext)
  /\ Len(call.response.tool_calls) = 1
  /\ seen # NoCall /\ seen.agent = "TodoAgent"
  /\ Len(seen.response.tool_calls) = 1

StoredBy(rows, user_id) == SelectSeq(rows, LAMBDA r : r.user_id = user_id)
\* the last n elements of a sequence, all of them when it has fewer
LastN(seq, n) ==
  SubSeq(seq, IF Len(seq) > n THEN Len(seq) - n + 1 ELSE 1, Len(seq))

\* C12: for every user and every N >= 1, get_conversation_context(user,
\* max_messages=N) returns the N rows stored last for the user, oldest
\* first, and all the rows of the user when there are fewer than N.
C12_ContextIsNewestSuffix ==
  \A user_id \in Users : \A n \in 1..MaxRows :
    get_conversation_context(select_messages(table, user_id), n)
      = LastN(StoredBy(table, user_id), n)

\* C13: for every user, get_recent_messages with a limit that covers all
\* the rows returns the rows of the user in the order store_message
\* recorded them, also when stores got equal timestamps.
C13_ReadInStoreOrder ==
  \A user_id \in Users :
    get_recent_messages(select_messages(table, user_id), Len(table), 0)
      = StoredBy(table, user_id)


\* C18: under every interleaving of the requests of the users, the reply
\* and the dispatched tool calls of the request a user was served last are
\* those the same requests of that user give when no other user is served
C18_ReplyAsWhenServedAlone ==
  \A user_id \in Users :
    /\ served[user_id].reply = alone[user_id].last.reply
    /\ served[user_id].response.tool_calls = alone[user_id].last.response.tool_calls

\* the rows of old among the rows of new, in the order new has them
KeptOf(new, old) == SelectSeq(new, LAMBDA r : \E i \in 1..Len(old) : old[i] = r)

\* C20: a request leaves every row stored before as it was and where it
\* was: the table keeps its rows as a prefix, every user reads the rows
\* read before in the order read before, and the rows of at most one user
\* change
C20_StoredTurnsKept ==
  [][/\ Len(table') >= Len(table)
     /\ SubSeq(table', 1, Len(table)) = table
     /\ \A user_id \in Users :
          KeptOf(select_messages(table', user_id), select_messages(table, user_id))
            = select_messages(table, user_id)
     /\ \A u \in Users : \A v \in Users \ {u} :
          \/ select_messages(table', u) = select_messages(table, u)
          \/ select_messages(table', v) = select_messages(table, v)]_vars
\* a user with rows of two requests, one of them stored at one reading of
\* the clock, and another user with rows as well
C20_Witness ==
  \E u \in Users : \E v \in Users \ {u} :
    /\ Len(StoredBy(table, u)) >= 4
    /\ StoredBy(table, v) # <<>>
    /\ \E i \in 1..Len(table) : \E j \in 1..Len(table) :
         i < j /\ table[i].user_id = u /\ table[j].user_id = u
         /\ table[i].timestamp = table[j].timestamp

\* ------------------------------------ what is checked of the tool execution
\* the tool calls and the results of the list executed last
LastCalls == last.response.tool_calls
LastResults == last.results
\* s is a run of tokens of t
Contains(t, s) ==
  \E k \in 0..(Len(t) - Len(s)) : SubSeq(t, k + 1, k + Len(s)) = s
\* the opening of the apology sentence, English or Urdu
Apology(urdu) ==
  IF urdu THEN <<"ur_reply_error">>
  ELSE <<"Sorry", ",", "I", "encountered", "an", "error", ":">>

\* C21: for every tool result whose success is false the reply holds an
\* apology sentence that ends with the reason the result reports, and the
\* reply is never the reported error string by itself
C21_FailureGivesApology ==
  \A i \in 1..Len(LastResults) :
    ~LastResults[i].success =>
      /\ LastResults[i].error # <<>>
      /\ \E urdu \in BOOLEAN :
           Contains(last.reply, Apology(urdu) \o LastResults[i].error)
      /\ last.reply # LastResults[i].error
\* the store did not find the task of the second call, and the reply
\* apologises in Urdu as the task the first call created has an Urdu title
C21_Witness ==
  /\ Len(LastResults) = 2
  /\ ~LastResults[2].success
  /\ LastResults[2].error = NotFound
  /\ Contains(last.reply, Apology(TRUE) \o NotFound)

\* the names TOOL_MAP holds
KnownTools == { "create_todo", "list_todos", "update_todo", "delete_todo", "get_todo" }

\* C22: execute_tool_calls gives one result per tool call in the order of
\* the calls; a name TOOL_MAP does not hold gives a failure whose error
\* holds "Unknown tool", a tool that raises gives a failure with the error
\* raised, and the calls after a failure are executed
C22_OneResultPerCall ==
  /\ Len(LastResults) = Len(LastCalls)
  /\ \A i \in 1..Len(LastCalls) :
       /\ LastCalls[i].name \notin KnownTools =>
            /\ ~LastResults[i].success
            /\ Contains(LastResults[i].error, <<"Unknown", "tool">>)
            /\ Contains(LastResults[i].error, <<LastCalls[i].name>>)
       /\ (LastCalls[i].name = "create_todo" /\ LastCalls[i].title = NonStr) =>
            /\ ~LastResults[i].success
            /\ LastResults[i].error = AttributeErrorText
       /\ (LastCalls[i].name = "create_todo"
           /\ LastCalls[i].title \notin { <<>>, NonStr }) =>
            /\ LastResults[i].success
            /\ LastResults[i].title = LastCalls[i].title
       /\ (LastResults[i].success /\ LastResults[i].has_deleted) =>
            /\ LastCalls[i].name = "delete_todo"
            /\ LastResults[i].todo_id = LastCalls[i].todo_id
\* a call ran after one that raised, and one after an unknown tool
C22_Witness ==
  /\ Len(LastCalls) = 2
  /\ LastCalls[1].name = "create_todo" /\ LastCalls[1].title = NonStr
  /\ ~LastResults[1].success
  /\ LastResults[2].success /\ LastResults[2].has_deleted

\* C28: a list of tool calls executed for a user changes no task of another
\* user, whatever user_id and task id the calls carry: the rows of a user
\* change only in a step that serves that user
C28_OnlyOwnTasksChange ==
  [][\A v \in Users :
       task_table'.rows[v] # task_table.rows[v] => served'[v] # served[v]]_vars
\* a user asked to delete a task of another user with a call that carried
\* the owner's user_id: the store did not find it and the owner has it still
C28_Witness ==
  \E u \in Users : \E v \in Users \ {u} :
    /\ Len(served[u].response.tool_calls) = 1
    /\ served[u].response.tool_calls[1].name = "delete_todo"
    /\ served[u].response.tool_calls[1].user_id = v
    /\ served[u].results[1].error = NotFound
    /\ \E i \in 1..Len(task_table.rows[v]) :
         task_table.rows[v][i].id = served[u].response.tool_calls[1].todo_id

\* ----------------------------------------- what is checked of the reads
\* the rows a read of the repository gave for the user, whatever the limit,
\* the offset and the id asked for
ReadFor(user_id) ==
  UNION { { get_recent_messages(select_messages(table, user_id), limit, offset)[i] :
              i \in 1..Len(get_recent_messages(select_messages(table, user_id),
                                               limit, offset)) } :
            limit \in 1..MaxRows, offset \in 0..1 }
  \cup UNION { { get_conversation_context(select_messages(table, user_id), n)[i] :
                   i \in 1..Len(get_conversation_context(
                                  select_messages(table, user_id), n)) } :
                 n \in 1..MaxRows }
  \cup UNION { { get_message_by_id(table, id, user_id)[i] :
                   i \in 1..Len(get_message_by_id(table, id, user_id)) } :
                 id \in 1..MaxRows }
  \cup { get_latest_message(table, user_id)[i] :
           i \in 1..Len(get_latest_message(table, user_id)) }

\* C23: no read made for a user returns a message stored for another user,
\* and count_user_messages counts the messages stored for the user only
C23_ReadsOnlyOwnMessages ==
  \A user_id \in Users :
    /\ \A r \in ReadFor(user_id) : r.user_id = user_id
    /\ count_user_messages(table, user_id) = Len(StoredBy(table, user_id))
\* the stores of two users interleave, and a user who asks for a message of
\* the other by its id gets None
C23_Witness ==
  /\ Len(table) >= 3
  /\ table[1].user_id = 1 /\ table[2].user_id = 2 /\ table[3].user_id = 1
  /\ get_message_by_id(table, 2, 1) = <<>>
  /\ get_message_by_id(table, 2, 2) # <<>>
  /\ get_latest_message(table, 1) # <<>>


\* --------------------------------- what is checked of the tool call records
\* a message of that id is stored
MessageStored(rows, id) ==
  \E i \in 1..Len(rows) : rows[i].id = id /\ rows[i].user_id \in Users

\* C24: every stored tool call record references a stored conversation
\* message: store_tool_call stores none for an id no message has, and no
\* record references a message that was deleted
C24_ToolCallsReferenceMessages ==
  \A i \in 1..Len(tool_call_table) :
    MessageStored(table, tool_call_table[i].message_id)

\* ------------------------------------- what is checked of the order of rules
\* the task an Urdu message names through the complete, delete or update
\* pattern, whichever of the three matches first, and the word it names it by
UrduReference(um) ==
  IF ur_num_verb(um, UrCompleteVerbs).matched
    THEN [kind |-> "complete", tool |-> "update_todo",
          num |-> ur_num_verb(um, UrCompleteVerbs).num]
  ELSE IF ur_num_verb(um, UrDeleteVerbs).matched
    THEN [kind |-> "delete", tool |-> "delete_todo",
          num |-> ur_num_verb(um, UrDeleteVerbs).num]
  ELSE IF ur_update(um).matched
    THEN [kind |-> "update", tool |-> "update_todo", num |-> ur_update(um).num]
  ELSE [kind |-> "none", tool |-> "none", num |-> ""]
\* first .. fifth
OrdinalId ==
  [w \in {"ur_pehla", "ur_doosra", "ur_teesra", "ur_chautha", "ur_panchwan"} |->
     IF w = "ur_pehla" THEN 1 ELSE IF w = "ur_doosra" THEN 2
     ELSE IF w = "ur_teesra" THEN 3 ELSE IF w = "ur_chautha" THEN 4 ELSE 5]
\* every tool call of the response is the tool's, for task id
CallsOnly(response, tool, id) ==
  \A i \in 1..Len(response.tool_calls) :
    response.tool_calls[i].name = tool /\ response.tool_calls[i].todo_id = id

\* C25: every Urdu input that matches the complete or the delete pattern,
\* the examples of the rule comments included, is classified as complete
\* or delete for the task id it names, and not as list or create.
C25_UrduCompleteAndDeleteDecide ==
  (Called /\ is_urdu(call.user_message))
  => \E ref \in { UrduReference(call.user_message) } :
       (ref.kind \in {"complete", "delete"} /\ IsNum(ref.num))
       => /\ call.response.intent
               \in (IF ref.kind = "complete" THEN {"complete"}
                    ELSE {"delete", "delete_request"})
          /\ CallsOnly(call.response, ref.tool, ToInt(ref.num))

\* C26: an Urdu ordinal word used as the task reference of a complete,
\* delete or update message gives the task id 1..5 it stands for in the
\* request dispatched, and no request of another kind is dispatched.
C26_OrdinalNamesTaskId ==
  (Called /\ is_urdu(call.user_message))
  => \E ref \in { UrduReference(call.user_message) } :
       (ref.kind # "none" /\ IsOrdinal(ref.num))
       => CallsOnly(call.response, ref.tool, OrdinalId[ref.num])

\* the history of the call extended with the call's message and reply
CallHistoryAfter ==
  call.conversation_history
  \o << Msg("user", call.user_message), Msg("assistant", call.response.response_text) >>
\* the call was answered with a delete confirmation question
CallAsksToDelete ==
  /\ Called /\ call.agent = "MockProvider"
  /\ call.response.tool_calls = <<>>
  /\ \/ call.response.intent = "delete_request"
     \/ call.response.intent = "delete_context" /\ Truthy(CallContext.last_id)
\* the id of the task the question of the call is about
CallAskedId ==
  IF call.response.intent = "delete_context" THEN CallContext.last_id
  ELSE IF is_urdu(call.user_message)
    THEN LET num == ur_num_verb(call.user_message, UrDeleteVerbs).num
         IN IF IsOrdinal(num) THEN OrdinalId[num] ELSE ToInt(num)
  ELSE ToInt(en_verb_id(CallMsg, DeleteVerbs, MockNouns).num)

\* C30: when MockProvider.process_message answers with a delete
\* confirmation question (English or Urdu input; the task named by digits,
\* by an Urdu ordinal or by "it"), the context resolved from the history
\* extended with that reply holds a pending delete of that task's id.
C30_QuestionLeavesPendingDelete ==
  CallAsksToDelete
  => PendingFor(get_context_from_history(CallHistoryAfter), CallAskedId)

\* ------------------------------------- what is checked of the scenario
\* C27: the input "Add a task to buy groceries tomorrow" is classified as
\* a create with the title "buy groceries", and when the table then stores
\* the task with id 42 the reply contains "buy groceries" and "42".
C27_GroceriesScenario ==
  (Served /\ last.input = GroceriesInput)
  => /\ Len(last.response.tool_calls) = 1
     /\ last.response.tool_calls[1].name = "create_todo"
     /\ last.response.tool_calls[1].title = <<"buy", "groceries">>
     /\ (last.results[1].success /\ last.results[1].todo_id = 42)
        => /\ Contains(last.reply, <<"buy", "groceries">>)
           /\ Contains(last.reply, <<"42">>)

\* ------------------------- what is checked of the origin of a confirmation
\* the rule list takes the message for a delete request
IsDeleteRequest(user_message) ==
  MockProvider_process_message(user_message, <<>>).intent
    \in {"delete_request", "delete_context"}
\* h holds a confirmation question for task id that answers a delete
\* request of the user
AskedAfterRequest(h, id) ==
  \E i \in 2..Len(h) :
    /\ h[i].role = "assistant"
    /\ AsksToDelete(h[i].content, id)
    /\ h[i - 1].role = "user"
    /\ IsDeleteRequest(h[i - 1].content)

\* C29: the stored history gives a pending delete of task N only when it
\* holds a confirmation question for N that answered a delete request;
\* Agent turns of another kind, such as replies that repeat a title the
\* user chose, leave none, and every delete_todo dispatched comes after a
\* delete request for its task.
C29_PendingOnlyFromDeleteRequest ==
  /\ \E context \in { get_context_from_history(history) } :
       HasPending(context) => AskedAfterRequest(history, context.pending_id)
  /\ Served
     => \A i \in CallsOf(last.response, "delete_todo") :
          AskedAfterRequest(last.context, last.response.tool_calls[i].todo_id)

====
